---- MODULE Spec2Model ----
(***************************************************************************)
(* A model of the milestone bookkeeping of SEEKR2: the within-boundary and *)
(* close-to-boundary checks of the collective variables (mmvt_base.py,     *)
(* elber_base.py), the boundary force of a milestone and its update, the   *)
(* milestone dictionaries of an anchor, the prepare stage (prepare.py) and *)
(* the cleansing of a BD directory.                                        *)
(*                                                                         *)
(* Lengths, CV values, milestone values and tolerances are fixed-point     *)
(* numbers in units of 0.001 (0.3 nm is 300, the tolerance 0.001 is 1);    *)
(* the force constant k is a whole number, as in the tests (-1.0, 9000.0). *)
(* k*(v - m) > t compares the same way in these units as in the code's.    *)
(***************************************************************************)
EXTENDS Integers, Sequences, FiniteSets, TLC

VARIABLES
    cv_op,      \* the CV method that is called
    cv_class,   \* the class of the CV it is called on
    cv_args,    \* the arguments of the call
    cv_ret,     \* what the call gave back (NoRet while it has not run)
    anchor_class,   \* "mmvt" (MMVT_anchor) or "elber" (Elber_anchor)
    milestones,     \* anchor.milestones: a list of milestones
    a_op,           \* the method of the anchor called last
    a_arg,          \* its argument
    a_ret,          \* what it returned
    f_kind,         \* "boundary": a boundary force; "voronoi": the pair of
                    \* Voronoi boundary forces of an anchor and a neighbor
    f_variables,    \* the variables of the force's bond
    f_old_variables,    \* the variables before the last update
    ctx_parameters, \* the parameters the context evaluates the force with
    ctx_distance,   \* the distance of the two groups in the context
    f_since_update, \* "never" updated, "updated", or "reinitialized" since
    f_op,           \* the call made last on the force or the context
    f_arg,          \* its argument
    f_ret,          \* what it returned
    p_xml,      \* the model in root_directory/model.xml, or NoFile
    p_tree,     \* the anchors that have a directory in the file tree
    p_outputs,  \* the anchors whose directory holds simulation outputs
    p_op,       \* the operation of the prepare stage done last
    p_arg,      \* its arguments
    p_calls,    \* the calls it made, in order
    p_ret,      \* "model" returned, "exception" thrown by modify_model over
                \* output files, "error" raised by a step for another reason
    bd_directory,   \* the names of the files in the BD directory
    bd_op,          \* the operation on it done last
    bd_check_mode,  \* the check_mode of the call
    bd_ret,         \* what cleanse_bd_outputs returned
    v_cv,           \* a CV object
    v_milestone,    \* a milestone of the model
    v_force,        \* the force object made last for the CV
    v_names,        \* the variable_names_list add_parameters returned last
    v_op,           \* the method of the CV called last
    v_ret,          \* what it returned or raised
    v_calls,        \* the calls make_mmvt_boundary_definitions made
    s_model,    \* the model: its integrator settings, its CVs, and the
                \* milestones of the anchor
    s_sim,      \* factory.sim_openmm
    s_before,   \* sim_openmm as it was before the last add_forces
    s_op,       \* the method of the factory called last
    s_arg,      \* its state_prefix
    s_ret,      \* what it returned or raised
    s_calls     \* the calls create_sim_openmm made

cv_vars == <<cv_op, cv_class, cv_args, cv_ret>>
anchor_vars == <<anchor_class, milestones, a_op, a_arg, a_ret>>
force_vars ==
    <<f_kind, f_variables, f_old_variables, ctx_parameters, ctx_distance,
      f_since_update, f_op, f_arg, f_ret>>
prepare_vars == <<p_xml, p_tree, p_outputs, p_op, p_arg, p_calls, p_ret>>
bd_vars == <<bd_directory, bd_op, bd_check_mode, bd_ret>>
cvobj_vars == <<v_cv, v_milestone, v_force, v_names, v_op, v_ret, v_calls>>
sim_vars == <<s_model, s_sim, s_before, s_op, s_arg, s_ret, s_calls>>

vars ==
    <<cv_vars, anchor_vars, force_vars,
      prepare_vars, bd_vars, cvobj_vars, sim_vars>>

\* what a step of one part of the program leaves alone
not_cv_vars ==
    <<anchor_vars, force_vars, prepare_vars,
      bd_vars, cvobj_vars, sim_vars>>
not_anchor_vars ==
    <<cv_vars, force_vars, prepare_vars,
      bd_vars, cvobj_vars, sim_vars>>
not_force_vars ==
    <<cv_vars, anchor_vars, prepare_vars,
      bd_vars, cvobj_vars, sim_vars>>
not_prepare_vars ==
    <<cv_vars, anchor_vars, force_vars,
      bd_vars, cvobj_vars, sim_vars>>
not_bd_vars ==
    <<cv_vars, anchor_vars, force_vars,
      prepare_vars, cvobj_vars, sim_vars>>
not_cvobj_vars ==
    <<cv_vars, anchor_vars, force_vars,
      prepare_vars, bd_vars, sim_vars>>
not_sim_vars ==
    <<cv_vars, anchor_vars, force_vars,
      prepare_vars, bd_vars, cvobj_vars>>

----------------------------------------------------------------------------
(* Bounds and input sets of the CV checks *)

\* the longest trajectory (number of frames) a check is given
MaxFrames == 3

\* CV values of a frame (0.099 .. 0.6)
FrameValues == {399, 400, 401, 500, 600}

\* values given to check_value_within_boundary
CheckValues == {299, 300, 301, 400, 500}

\* milestone values ("radius" or "value")
MilestoneValues == {300, 400, 500}

\* force constants: both signs, and zero
KValues == {-1, 0, 1}

\* tolerances given to check_value_within_boundary
Tolerances == {-1, 0, 1, 100}

Abs(x) == IF x < 0 THEN -x ELSE x

\* every sequence over S of length at most n
SeqsUpTo(S, n) == UNION {[1..m -> S] : m \in 0..n}

Trajectories == SeqsUpTo(FrameValues, MaxFrames)

\* the classes whose check_value_within_boundary compares k*(v - m) with the
\* tolerance
ValueCVClasses == {"spherical", "tiwary", "planar", "rmsd"}

\* milestone_variables of a milestone of a CV of class cls: the spherical CV
\* reads "radius", the others "value"
MilestoneVariables(cls) ==
    IF cls \in {"spherical", "elber_spherical"}
    THEN [k : KValues, radius : MilestoneValues]
    ELSE [k : KValues, value : MilestoneValues]

NoArgs ==
    [value |-> 0, traj |-> <<>>, mv |-> [k |-> 0], tolerance |-> 0,
     max_avg |-> 0, max_std |-> 0, expr |-> "None", ctx_x |-> 0,
     positions |-> <<>>]

NoRet == [kind |-> "none", val |-> FALSE, frames |-> 0]
Return(b, n) == [kind |-> "return", val |-> b, frames |-> n]
Raise == [kind |-> "raise", val |-> FALSE, frames |-> 0]

----------------------------------------------------------------------------
(* check_value_within_boundary *)

\* default of the tolerance parameter of check_value_within_boundary
DefaultTolerance == 0

\* a mutant of spherical_check_value_within_boundary: ">=" for ">"
spherical_check_value_within_boundary_ge(radius, milestone_variables, tolerance) ==
    LET milestone_k == milestone_variables.k
        milestone_radius == milestone_variables.radius
    IN  IF milestone_k * (radius - milestone_radius) >= tolerance
        THEN FALSE
        ELSE TRUE

spherical_check_value_within_boundary(radius, milestone_variables, tolerance) ==
    LET milestone_k == milestone_variables.k
        milestone_radius == milestone_variables.radius
    IN  IF milestone_k * (radius - milestone_radius) > tolerance
        THEN FALSE
        ELSE TRUE

tiwary_check_value_within_boundary(op_value, milestone_variables, tolerance) ==
    LET milestone_k == milestone_variables.k
        milestone_value == milestone_variables.value
    IN  IF milestone_k * (op_value - milestone_value) > tolerance
        THEN FALSE
        ELSE TRUE

planar_check_value_within_boundary(value, milestone_variables, tolerance) ==
    LET milestone_k == milestone_variables.k
        milestone_value == milestone_variables.value
    IN  IF milestone_k * (value - milestone_value) > tolerance
        THEN FALSE
        ELSE TRUE

rmsd_check_value_within_boundary(value, milestone_variables, tolerance) ==
    LET milestone_k == milestone_variables.k
        milestone_value == milestone_variables.value
    IN  IF milestone_k * (value - milestone_value) > tolerance
        THEN FALSE
        ELSE TRUE

\* the method the class of the CV selects
check_value_within_boundary(cls, v, mv, tolerance) ==
    CASE cls = "spherical" -> spherical_check_value_within_boundary(v, mv, tolerance)
      [] cls = "tiwary" -> tiwary_check_value_within_boundary(v, mv, tolerance)
      [] cls = "planar" -> planar_check_value_within_boundary(v, mv, tolerance)
      [] cls = "rmsd" -> rmsd_check_value_within_boundary(v, mv, tolerance)

CheckValueWithinBoundary ==
    /\ cv_op = "check_value_within_boundary"
    /\ cv_ret = NoRet
    /\ cv_ret' = Return(check_value_within_boundary(
                        cv_class, cv_args.value, cv_args.mv, cv_args.tolerance), 0)
    /\ UNCHANGED <<cv_op, cv_class, cv_args>>
    /\ UNCHANGED not_cv_vars

\* the calls of check_value_within_boundary the model makes
CheckValueCalls(cls) ==
    {[NoArgs EXCEPT !.value = v, !.mv = mv, !.tolerance = t] :
        v \in CheckValues, mv \in MilestoneVariables(cls), t \in Tolerances}

----------------------------------------------------------------------------
(* check_mdtraj_within_boundary: a trajectory is the sequence of the CV     *)
(* values of its frames (the distance of the two centres of mass, the       *)
(* weighted sum of the order parameters, the planar value, the RMSD), which *)
(* mdtraj and numpy compute.                                                *)

\* TOL of MMVT_tiwary_CV.check_mdtraj_within_boundary: 0.001
TOL_tiwary == 1
\* TOL of MMVT_planar_CV.check_mdtraj_within_boundary: 0.001
TOL_planar == 1
\* TOL of MMVT_RMSD_CV.check_mdtraj_within_boundary: 0.0
TOL_rmsd == 0

\* a mutant of within_frames: the result of the last frame overwrites the
\* earlier ones, and every frame is visited
RECURSIVE within_frames_last(_, _, _, _, _)
within_frames_last(cls, traj, mv, tolerance, frame_index) ==
    IF Len(traj) = 0
    THEN Return(TRUE, 0)
    ELSE Return(check_value_within_boundary(cls, traj[Len(traj)], mv, tolerance),
                Len(traj))

\* the loop over the frames, from frame_index on: False at the first frame
\* whose value is not within the boundary, True after the last frame. The
\* result carries the number of frames the loop looked at.
RECURSIVE within_frames(_, _, _, _, _)
within_frames(cls, traj, mv, tolerance, frame_index) ==
    IF frame_index > Len(traj)
    THEN Return(TRUE, Len(traj))
    ELSE IF ~check_value_within_boundary(cls, traj[frame_index], mv, tolerance)
         THEN Return(FALSE, frame_index)
         ELSE within_frames(cls, traj, mv, tolerance, frame_index + 1)

\* the spherical CV passes (radius, milestone_variables, verbose): the
\* tolerance is the default of check_value_within_boundary
spherical_check_mdtraj_within_boundary(traj, milestone_variables) ==
    within_frames("spherical", traj, milestone_variables, DefaultTolerance, 1)

tiwary_check_mdtraj_within_boundary(traj, milestone_variables) ==
    within_frames("tiwary", traj, milestone_variables, TOL_tiwary, 1)

planar_check_mdtraj_within_boundary(traj, milestone_variables) ==
    within_frames("planar", traj, milestone_variables, TOL_planar, 1)

rmsd_check_mdtraj_within_boundary(traj, milestone_variables) ==
    within_frames("rmsd", traj, milestone_variables, TOL_rmsd, 1)

check_mdtraj_within_boundary(cls, traj, mv) ==
    CASE cls = "spherical" -> spherical_check_mdtraj_within_boundary(traj, mv)
      [] cls = "tiwary" -> tiwary_check_mdtraj_within_boundary(traj, mv)
      [] cls = "planar" -> planar_check_mdtraj_within_boundary(traj, mv)
      [] cls = "rmsd" -> rmsd_check_mdtraj_within_boundary(traj, mv)

CheckMdtrajWithinBoundary ==
    /\ cv_op = "check_mdtraj_within_boundary"
    /\ cv_ret = NoRet
    /\ cv_ret' = check_mdtraj_within_boundary(cv_class, cv_args.traj, cv_args.mv)
    /\ UNCHANGED <<cv_op, cv_class, cv_args>>
    /\ UNCHANGED not_cv_vars

CheckMdtrajWithinCalls(cls) ==
    {[NoArgs EXCEPT !.traj = traj, !.mv = mv] :
        traj \in Trajectories, mv \in MilestoneVariables(cls)}

----------------------------------------------------------------------------
(* check_mdtraj_close_to_boundary *)

\* defaults of max_avg (0.03) and max_std (0.05)
DefaultMaxAvg == 30
DefaultMaxStd == 50

MaxAvgs == {DefaultMaxAvg, 150}
MaxStds == {DefaultMaxStd, 150}

\* the classes that compute the mean and the standard deviation
CloseCVClasses == {"spherical", "planar", "elber_spherical"}
\* the classes whose check_mdtraj_close_to_boundary is not implemented
UnimplementedCloseCVClasses == {"tiwary", "rmsd"}

RECURSIVE SumSeq(_)
SumSeq(s) == IF s = <<>> THEN 0 ELSE s[1] + SumSeq(Tail(s))

\* a mutant of close_to_boundary: "and" for "or"
close_to_boundary_and(distances, max_avg, max_std) ==
    LET n == Len(distances)
        total == SumSeq(distances)
        dev2 == SumSeq([i \in 1..n |-> (n * distances[i] - total) * (n * distances[i] - total)])
    IN  IF n = 0
        THEN TRUE
        ELSE IF Abs(total) > max_avg * n /\ dev2 > max_std * max_std * n * n * n
             THEN FALSE
             ELSE TRUE

\* avg_distance = np.mean(distances), std_distance = np.std(distances) and
\* the test abs(avg_distance) > max_avg or std_distance > max_std. With
\* n frames and the sum total, the mean is total/n and the standard
\* deviation sqrt(sum_i (distances[i] - total/n)^2 / n); both comparisons are
\* multiplied out to whole numbers. Of no frame numpy gives nan for both (and
\* a RuntimeWarning), each comparison with nan is False, and True is returned.
close_to_boundary(distances, max_avg, max_std) ==
    LET n == Len(distances)
        total == SumSeq(distances)
        dev2 == SumSeq([i \in 1..n |-> (n * distances[i] - total) * (n * distances[i] - total)])
    IN  IF n = 0
        THEN TRUE
        ELSE IF Abs(total) > max_avg * n \/ dev2 > max_std * max_std * n * n * n
             THEN FALSE
             ELSE TRUE

spherical_check_mdtraj_close_to_boundary(traj, milestone_variables, max_avg, max_std) ==
    LET milestone_radius == milestone_variables.radius
        distances == [frame_index \in 1..Len(traj) |-> traj[frame_index] - milestone_radius]
    IN  close_to_boundary(distances, max_avg, max_std)

planar_check_mdtraj_close_to_boundary(traj, milestone_variables, max_avg, max_std) ==
    LET milestone_value == milestone_variables.value
        values == [frame_index \in 1..Len(traj) |-> traj[frame_index] - milestone_value]
    IN  close_to_boundary(values, max_avg, max_std)

elber_spherical_check_mdtraj_close_to_boundary(traj, milestone_variables, max_avg, max_std) ==
    LET milestone_radius == milestone_variables.radius
        distances == [frame_index \in 1..Len(traj) |-> traj[frame_index] - milestone_radius]
    IN  close_to_boundary(distances, max_avg, max_std)

\* prints "not yet implemented" and returns True
tiwary_check_mdtraj_close_to_boundary(traj, milestone_variables, max_avg, max_std) ==
    TRUE

\* prints "not yet implemented" and returns True
rmsd_check_mdtraj_close_to_boundary(traj, milestone_variables, max_avg, max_std) ==
    TRUE

check_mdtraj_close_to_boundary(cls, traj, mv, max_avg, max_std) ==
    CASE cls = "spherical" ->
            spherical_check_mdtraj_close_to_boundary(traj, mv, max_avg, max_std)
      [] cls = "planar" ->
            planar_check_mdtraj_close_to_boundary(traj, mv, max_avg, max_std)
      [] cls = "elber_spherical" ->
            elber_spherical_check_mdtraj_close_to_boundary(traj, mv, max_avg, max_std)
      [] cls = "tiwary" ->
            tiwary_check_mdtraj_close_to_boundary(traj, mv, max_avg, max_std)
      [] cls = "rmsd" ->
            rmsd_check_mdtraj_close_to_boundary(traj, mv, max_avg, max_std)

CheckMdtrajCloseToBoundary ==
    /\ cv_op = "check_mdtraj_close_to_boundary"
    /\ cv_ret = NoRet
    /\ cv_ret' = Return(check_mdtraj_close_to_boundary(
                            cv_class, cv_args.traj, cv_args.mv,
                            cv_args.max_avg, cv_args.max_std),
                        Len(cv_args.traj))
    /\ UNCHANGED <<cv_op, cv_class, cv_args>>
    /\ UNCHANGED not_cv_vars

\* the force constant is not read by check_mdtraj_close_to_boundary
CheckMdtrajCloseCalls(cls) ==
    {[NoArgs EXCEPT !.traj = traj, !.mv = mv, !.max_avg = a, !.max_std = sd] :
        traj \in Trajectories,
        mv \in {m \in MilestoneVariables(cls) : m.k = 1},
        a \in MaxAvgs, sd \in MaxStds}

----------------------------------------------------------------------------
(* check_openmm_context_within_boundary of the external CVs *)

\* the expression of an external CV is given by the user: None (the value
\* __init__ leaves), a step expression, and one that is not a step
ExternalExpressions == {"None", "step(k*(x1 - value))", "k*(x1 - value)"}

\* x coordinate of the first particle
PositionValues == {300, 400, 500}

step(x) == IF x < 0 THEN 0 ELSE 1

\* exec of the assignments of the positions and of the milestone variables
\* followed by "result=" + the expression
EvalExpression(expr, x1, mv) ==
    CASE expr = "step(k*(x1 - value))" -> step(mv.k * (x1 - mv.value))
      [] expr = "k*(x1 - value)" -> mv.k * (x1 - mv.value)

\* "result=" + None raises a TypeError
external_check_positions_within_boundary(openmm_expression, positions, milestone_variables) ==
    IF openmm_expression = "None"
    THEN Raise
    ELSE LET result == EvalExpression(openmm_expression, positions[1], milestone_variables)
         IN  IF result <= 0 THEN Return(TRUE, 0) ELSE Return(FALSE, 0)

\* positions is <<>> for None: the positions of the state of the context
external_check_openmm_context_within_boundary(openmm_expression, context_x, milestone_variables, positions) ==
    LET pos == IF positions = <<>> THEN <<context_x>> ELSE positions
    IN  external_check_positions_within_boundary(openmm_expression, pos, milestone_variables)

elber_external_check_positions_within_boundary(openmm_fwd_rev_expression, positions, milestone_variables) ==
    IF openmm_fwd_rev_expression = "None"
    THEN Raise
    ELSE LET result == EvalExpression(openmm_fwd_rev_expression, positions[1], milestone_variables)
         IN  IF result <= 0 THEN Return(TRUE, 0) ELSE Return(FALSE, 0)

elber_external_check_openmm_context_within_boundary(openmm_fwd_rev_expression, context_x, milestone_variables, positions) ==
    LET pos == IF positions = <<>> THEN <<context_x>> ELSE positions
    IN  elber_external_check_positions_within_boundary(
            openmm_fwd_rev_expression, pos, milestone_variables)

ExternalCVClasses == {"external", "elber_external"}

CheckOpenmmContextWithinBoundary ==
    /\ cv_op = "check_openmm_context_within_boundary"
    /\ cv_ret = NoRet
    /\ cv_ret' = IF cv_class = "external"
                 THEN external_check_openmm_context_within_boundary(
                          cv_args.expr, cv_args.ctx_x, cv_args.mv, cv_args.positions)
                 ELSE elber_external_check_openmm_context_within_boundary(
                          cv_args.expr, cv_args.ctx_x, cv_args.mv, cv_args.positions)
    /\ UNCHANGED <<cv_op, cv_class, cv_args>>
    /\ UNCHANGED not_cv_vars

CheckOpenmmContextCalls(cls) ==
    {[NoArgs EXCEPT !.expr = e, !.ctx_x = cx, !.mv = mv, !.positions = pos] :
        e \in ExternalExpressions, cx \in PositionValues,
        mv \in MilestoneVariables(cls),
        pos \in {<<>>} \cup {<<x>> : x \in PositionValues}}

----------------------------------------------------------------------------
\* a call of one method of one CV, with its arguments, not yet run
InitCV ==
    /\ cv_ret = NoRet
    /\ \/ /\ cv_op = "check_value_within_boundary"
          /\ cv_class \in ValueCVClasses
          /\ cv_args \in CheckValueCalls(cv_class)
       \/ /\ cv_op = "check_mdtraj_within_boundary"
          /\ cv_class \in ValueCVClasses
          /\ cv_args \in CheckMdtrajWithinCalls(cv_class)
       \/ /\ cv_op = "check_mdtraj_close_to_boundary"
          /\ cv_class \in CloseCVClasses \cup UnimplementedCloseCVClasses
          /\ cv_args \in CheckMdtrajCloseCalls(cv_class)
       \/ /\ cv_op = "check_openmm_context_within_boundary"
          /\ cv_class \in ExternalCVClasses
          /\ cv_args \in CheckOpenmmContextCalls(cv_class)

NextCV ==
    \/ CheckValueWithinBoundary
    \/ CheckMdtrajWithinBoundary
    \/ CheckMdtrajCloseToBoundary
    \/ CheckOpenmmContextWithinBoundary

----------------------------------------------------------------------------
(* The milestone dictionaries of an anchor *)

\* the longest list of milestones of an anchor
MaxMilestones == 3

\* model-wide indices, alias indices and neighbor anchor indices of the
\* milestones, and a key that no milestone has
IndexValues == {5, 6}
AliasValues == {1, 2}
NeighborValues == {3, 4}
AbsentKeys == {9}

Milestones ==
    [index : IndexValues, neighbor_anchor_index : NeighborValues,
     alias_index : AliasValues]

\* a Python dict as a function on its keys; d[key] = val
EmptyDict == [x \in {} |-> 0]
Put(d, key, val) ==
    [x \in DOMAIN d \cup {key} |-> IF x = key THEN val ELSE d[x]]

NoDicts ==
    [id_key_alias_value_dict |-> EmptyDict,
     alias_key_id_value_dict |-> EmptyDict,
     neighbor_id_key_alias_value_dict |-> EmptyDict]

\* a mutant of mmvt_milestone_collection_loop: the alias dictionary is given
\* the neighbor index for the model-wide index
RECURSIVE mmvt_milestone_collection_loop_neighbor(_, _, _)
mmvt_milestone_collection_loop_neighbor(ms, i, dicts) ==
    IF i > Len(ms)
    THEN dicts
    ELSE LET index == ms[i].index
             neighbor_index == ms[i].neighbor_anchor_index
             alias_index == ms[i].alias_index
         IN  mmvt_milestone_collection_loop_neighbor(ms, i + 1,
               [id_key_alias_value_dict |->
                    Put(dicts.id_key_alias_value_dict, index, alias_index),
                neighbor_id_key_alias_value_dict |->
                    Put(dicts.neighbor_id_key_alias_value_dict, neighbor_index, alias_index),
                alias_key_id_value_dict |->
                    Put(dicts.alias_key_id_value_dict, alias_index, neighbor_index)])

\* the loop of MMVT_anchor._make_milestone_collection over self.milestones,
\* from milestone i on
RECURSIVE mmvt_milestone_collection_loop(_, _, _)
mmvt_milestone_collection_loop(ms, i, dicts) ==
    IF i > Len(ms)
    THEN dicts
    ELSE LET index == ms[i].index
             neighbor_index == ms[i].neighbor_anchor_index
             alias_index == ms[i].alias_index
         IN  mmvt_milestone_collection_loop(ms, i + 1,
               [id_key_alias_value_dict |->
                    Put(dicts.id_key_alias_value_dict, index, alias_index),
                neighbor_id_key_alias_value_dict |->
                    Put(dicts.neighbor_id_key_alias_value_dict, neighbor_index, alias_index),
                alias_key_id_value_dict |->
                    Put(dicts.alias_key_id_value_dict, alias_index, index)])

mmvt_make_milestone_collection(ms) == mmvt_milestone_collection_loop(ms, 1, NoDicts)

\* the loop of Elber_anchor._make_milestone_collection
RECURSIVE elber_milestone_collection_loop(_, _, _)
elber_milestone_collection_loop(ms, i, dicts) ==
    IF i > Len(ms)
    THEN dicts
    ELSE LET index == ms[i].index
             neighbor_index == ms[i].neighbor_anchor_index
             alias_index == ms[i].alias_index
         IN  elber_milestone_collection_loop(ms, i + 1,
               [id_key_alias_value_dict |->
                    Put(dicts.id_key_alias_value_dict, index, alias_index),
                neighbor_id_key_alias_value_dict |->
                    Put(dicts.neighbor_id_key_alias_value_dict, neighbor_index, alias_index),
                alias_key_id_value_dict |->
                    Put(dicts.alias_key_id_value_dict, alias_index, index)])

elber_make_milestone_collection(ms) == elber_milestone_collection_loop(ms, 1, NoDicts)

_make_milestone_collection(cls, ms) ==
    IF cls = "mmvt"
    THEN mmvt_make_milestone_collection(ms)
    ELSE elber_make_milestone_collection(ms)

\* what a method of the anchor gives back
None == [kind |-> "None", val |-> 0, ids |-> <<>>]
Value(v) == [kind |-> "value", val |-> v, ids |-> <<>>]
List(l) == [kind |-> "list", val |-> 0, ids |-> l]
KeyError == [kind |-> "raise", val |-> 0, ids |-> <<>>]

\* a mutant of id_from_alias: the dictionary is indexed without the test
\* "alias_id in alias_key_id_value_dict"
id_from_alias_unchecked(cls, ms, alias_id) ==
    LET alias_key_id_value_dict == _make_milestone_collection(cls, ms).alias_key_id_value_dict
    IN  IF alias_id \in DOMAIN alias_key_id_value_dict
        THEN Value(alias_key_id_value_dict[alias_id])
        ELSE KeyError

id_from_alias(cls, ms, alias_id) ==
    LET alias_key_id_value_dict == _make_milestone_collection(cls, ms).alias_key_id_value_dict
    IN  IF alias_id \in DOMAIN alias_key_id_value_dict
        THEN Value(alias_key_id_value_dict[alias_id])
        ELSE None

alias_from_id(cls, ms, my_id) ==
    LET id_key_alias_value_dict == _make_milestone_collection(cls, ms).id_key_alias_value_dict
    IN  IF my_id \in DOMAIN id_key_alias_value_dict
        THEN Value(id_key_alias_value_dict[my_id])
        ELSE None

alias_from_neighbor_id(cls, ms, neighbor_id) ==
    LET neighbor_id_key_alias_value_dict ==
            _make_milestone_collection(cls, ms).neighbor_id_key_alias_value_dict
    IN  IF neighbor_id \in DOMAIN neighbor_id_key_alias_value_dict
        THEN Value(neighbor_id_key_alias_value_dict[neighbor_id])
        ELSE None

\* the keys of a dict come in the order of their first insertion
RECURSIVE KeysInOrder(_, _, _)
KeysInOrder(ms, i, keys) ==
    IF i > Len(ms)
    THEN keys
    ELSE KeysInOrder(ms, i + 1,
            IF \E j \in 1..Len(keys) : keys[j] = ms[i].index
            THEN keys
            ELSE Append(keys, ms[i].index))

\* list(id_key_alias_value_dict.keys()) of MMVT_anchor, and the keys view of
\* Elber_anchor
get_ids(cls, ms) ==
    LET id_key_alias_value_dict == _make_milestone_collection(cls, ms).id_key_alias_value_dict
        keys == KeysInOrder(ms, 1, <<>>)
    IN  List([j \in 1..Cardinality(DOMAIN id_key_alias_value_dict) |-> keys[j]])

\* a milestone is appended to anchor.milestones while the model is built
AppendMilestone ==
    /\ Len(milestones) < MaxMilestones
    /\ \E milestone \in Milestones :
          milestones' = Append(milestones, milestone)
    /\ a_op' = "append"
    /\ a_arg' = 0
    /\ a_ret' = None
    /\ UNCHANGED anchor_class
    /\ UNCHANGED not_anchor_vars

IdFromAlias ==
    /\ \E alias_id \in AliasValues \cup AbsentKeys :
          /\ a_arg' = alias_id
          /\ a_ret' = id_from_alias(anchor_class, milestones, alias_id)
    /\ a_op' = "id_from_alias"
    /\ UNCHANGED <<anchor_class, milestones>>
    /\ UNCHANGED not_anchor_vars

AliasFromId ==
    /\ \E my_id \in IndexValues \cup AbsentKeys :
          /\ a_arg' = my_id
          /\ a_ret' = alias_from_id(anchor_class, milestones, my_id)
    /\ a_op' = "alias_from_id"
    /\ UNCHANGED <<anchor_class, milestones>>
    /\ UNCHANGED not_anchor_vars

AliasFromNeighborId ==
    /\ \E neighbor_id \in NeighborValues \cup AbsentKeys :
          /\ a_arg' = neighbor_id
          /\ a_ret' = alias_from_neighbor_id(anchor_class, milestones, neighbor_id)
    /\ a_op' = "alias_from_neighbor_id"
    /\ UNCHANGED <<anchor_class, milestones>>
    /\ UNCHANGED not_anchor_vars

GetIds ==
    /\ a_op' = "get_ids"
    /\ a_arg' = 0
    /\ a_ret' = get_ids(anchor_class, milestones)
    /\ UNCHANGED <<anchor_class, milestones>>
    /\ UNCHANGED not_anchor_vars

\* MMVT_anchor.__init__ and Elber_anchor.__init__: no milestone
InitAnchor ==
    /\ anchor_class \in {"mmvt", "elber"}
    /\ milestones = <<>>
    /\ a_op = "init"
    /\ a_arg = 0
    /\ a_ret = None

NextAnchor ==
    \/ AppendMilestone
    \/ IdFromAlias
    \/ AliasFromId
    \/ AliasFromNeighborId
    \/ GetIds

----------------------------------------------------------------------------
(* The boundary force of a milestone, the OpenMM context that evaluates   *)
(* it, and the update of its variables (test_mmvt_spherical_cv.py).       *)

\* the values of the per-bond parameters bitcode, k and radius, the
\* values me_val and neighbor_val of a Voronoi boundary, and the distances
\* between the two groups that the positions of the tests give
BitcodeValues == {1, 2}
RadiusValues == {100, 300}
VoronoiValues == {500, 700, 900}
DistanceValues == {100, 141, 500, 700}

\* [bitcode, k, radius], as get_variable_values_list orders them
BoundaryVariables ==
    {<<bitcode, k, radius>> :
        bitcode \in BitcodeValues, k \in KValues, radius \in RadiusValues}
VoronoiVariables ==
    {<<me_val, neighbor_val>> :
        me_val \in VoronoiValues, neighbor_val \in VoronoiValues}
ForceVariables(kind) ==
    IF kind = "boundary" THEN BoundaryVariables ELSE VoronoiVariables

\* a sign error in the expression: the inside and the outside exchanged
spherical_openmm_expression_flipped(k, radius, distance) ==
    step(k * (radius * radius - distance * distance))

\* self.openmm_expression = "step(k*(distance(g1, g2)^2 - radius^2))"
spherical_openmm_expression(k, radius, distance) ==
    step(k * (distance * distance - radius * radius))

\* make_force_object: expression_w_bitcode = "bitcode*" + openmm_expression,
\* evaluated with the per-bond parameters [bitcode, k, radius]
expression_w_bitcode(parameters, distance) ==
    parameters[1]
        * spherical_openmm_expression(parameters[2], parameters[3], distance)

\* the expression of a Voronoi boundary force of the spherical CV: the
\* square of the difference between the distance and the force's value
voronoi_expression(val, distance) ==
    (distance - val) * (distance - val)

\* context.getState(getEnergy=True, groups={group}).getPotentialEnergy():
\* the boundary force is in force group 1, the Voronoi forces of the anchor
\* itself and of its neighbor in groups 1 and 2
getPotentialEnergy(kind, parameters, distance, group) ==
    IF kind = "boundary"
    THEN expression_w_bitcode(parameters, distance)
    ELSE voronoi_expression(parameters[group], distance)

ForceGroups(kind) == IF kind = "boundary" THEN {1} ELSE {1, 2}

\* the milestone variables that belong to a list of force variables
milestone_variables_of(variables) ==
    [k |-> variables[2], radius |-> variables[3]]

NoContext == <<>>
NoVariables == <<>>
NoEnergy == [kind |-> "none", val |-> 0]
Energy(e) == [kind |-> "energy", val |-> e]
Result(b) == [kind |-> "result", val |-> b]

\* make_toy_simulation_and_context(system, topology, positions): the
\* context takes the parameters of the force as they are now
MakeContext ==
    /\ ctx_parameters = NoContext
    /\ \E distance \in DistanceValues : ctx_distance' = distance
    /\ ctx_parameters' = f_variables
    /\ f_op' = "make_context"
    /\ f_arg' = 0
    /\ f_ret' = NoEnergy
    /\ UNCHANGED <<f_kind, f_variables, f_old_variables, f_since_update>>
    /\ UNCHANGED not_force_vars

\* context.setPositions(positions)
SetPositions ==
    /\ ctx_parameters # NoContext
    /\ \E distance \in DistanceValues : ctx_distance' = distance
    /\ f_op' = "setPositions"
    /\ f_arg' = 0
    /\ f_ret' = NoEnergy
    /\ UNCHANGED <<f_kind, f_variables, f_old_variables, ctx_parameters,
                   f_since_update>>
    /\ UNCHANGED not_force_vars

\* context.getState(getEnergy=True, groups={group}): the context evaluates
\* the expression with its own copy of the parameters
GetState ==
    /\ ctx_parameters # NoContext
    /\ \E group \in ForceGroups(f_kind) :
          /\ f_arg' = group
          /\ f_ret' = Energy(getPotentialEnergy(f_kind, ctx_parameters,
                                                ctx_distance, group))
    /\ f_op' = "getState"
    /\ UNCHANGED <<f_kind, f_variables, f_old_variables, ctx_parameters,
                   ctx_distance, f_since_update>>
    /\ UNCHANGED not_force_vars

\* update_groups_and_variables(force, variables, alias_id, context) and
\* update_voronoi_cv_boundary_forces(me_force, me_val, neighbor_force,
\* neighbor_val, alias_id, context): the force gets the new values; a
\* context that is passed may or may not see them before it is
\* reinitialized, one that is not passed (context=None) does not
UpdateGroupsAndVariables ==
    /\ ctx_parameters # NoContext
    /\ \E variables \in ForceVariables(f_kind) \ {f_variables} :
          /\ f_variables' = variables
          /\ \E with_context \in BOOLEAN :
                /\ f_arg' = IF with_context THEN 1 ELSE 0
                /\ ctx_parameters' \in
                      IF with_context THEN {ctx_parameters, variables}
                                      ELSE {ctx_parameters}
    /\ f_old_variables' = f_variables
    /\ f_since_update' = "updated"
    /\ f_op' = "update_groups_and_variables"
    /\ f_ret' = NoEnergy
    /\ UNCHANGED <<f_kind, ctx_distance>>
    /\ UNCHANGED not_force_vars

\* context.reinitialize(preserveState=True): the context is built again
\* from the system and its forces, the positions are kept
Reinitialize ==
    /\ ctx_parameters # NoContext
    /\ ctx_parameters' = f_variables
    /\ f_since_update' =
          IF f_since_update = "updated" THEN "reinitialized"
                                        ELSE f_since_update
    /\ f_op' = "reinitialize"
    /\ f_arg' = 0
    /\ f_ret' = NoEnergy
    /\ UNCHANGED <<f_kind, f_variables, f_old_variables, ctx_distance>>
    /\ UNCHANGED not_force_vars

\* MMVT_spherical_CV.check_openmm_context_within_boundary(context,
\* milestone_variables): the distance of the two centers of mass in the
\* context, given to check_value_within_boundary with tolerance 0.0; the
\* caller passes the variables of the milestone as they are now
SphericalCheckOpenmmContextWithinBoundary ==
    /\ ctx_parameters # NoContext
    /\ f_kind = "boundary"
    /\ f_ret' = Result(spherical_check_value_within_boundary(
                    ctx_distance, milestone_variables_of(f_variables),
                    DefaultTolerance))
    /\ f_op' = "check_openmm_context_within_boundary"
    /\ f_arg' = 0
    /\ UNCHANGED <<f_kind, f_variables, f_old_variables, ctx_parameters,
                   ctx_distance, f_since_update>>
    /\ UNCHANGED not_force_vars

\* the force as add_groups_and_variables (make_voronoi_cv_boundary_forces)
\* leaves it: one bond with its variables, no context yet
InitForce ==
    /\ f_kind \in {"boundary", "voronoi"}
    /\ f_variables \in ForceVariables(f_kind)
    /\ f_old_variables = NoVariables
    /\ ctx_parameters = NoContext
    /\ ctx_distance = 0
    /\ f_since_update = "never"
    /\ f_op = "add_groups_and_variables"
    /\ f_arg = 0
    /\ f_ret = NoEnergy

NextForce ==
    \/ MakeContext
    \/ SetPositions
    \/ GetState
    \/ UpdateGroupsAndVariables
    \/ Reinitialize
    \/ SphericalCheckOpenmmContextWithinBoundary

----------------------------------------------------------------------------
(* The prepare stage (prepare.py): the model, model.xml, the anchor       *)
(* directories of the file tree and the output files in them.             *)

\* the most anchors a model has
MaxAnchors == 2
\* what defines an anchor in the model input (the value of its milestone)
AnchorDefinitions == {300, 400}

\* a model input: the definitions of its anchors, in order
ModelInputs ==
    UNION {[1..n -> AnchorDefinitions] : n \in 1..MaxAnchors}

\* no file model.xml in the root directory
NoFile == <<>>

\* Model_factory.create_model + prepare_model_cvs_and_anchors: one anchor
\* for each anchor of the input, with its index and its definition
create_model(model_input) ==
    [i \in 1..Len(model_input) |->
        [index |-> i - 1, definition |-> model_input[i]]]

\* the anchors of the old model whose directory the new model does not
\* keep as it is: the anchor is gone or defined differently
anchors_overwritten(old_model, model) ==
    {i \in 1..Len(old_model) :
        \/ i > Len(model)
        \/ model[i].definition # old_model[i].definition}

\* common_prepare.modify_model(old_model, model, root_directory,
\* force_overwrite), as the help of --force_overwrite describes it: output
\* files of an anchor of the old model that the new model would overwrite
\* make it throw, unless force_overwrite, and then they are removed
modify_model(old_model, model, fs, force_overwrite) ==
    LET overwritten == anchors_overwritten(old_model, model)
    IN  IF overwritten \cap fs.outputs # {} /\ ~force_overwrite
        THEN [fs EXCEPT !.ret = "exception"]
        ELSE [fs EXCEPT !.outputs = fs.outputs \ overwritten,
                        !.tree = fs.tree \ {i \in overwritten : i > Len(model)}]

\* steps of the call that may raise for a reason of their own (an input that
\* makes no model, a file that cannot be read, a directory that cannot be
\* made), or none of them: the first step, one before modify_model, the
\* step after it and the last one before model.serialize
FailingSteps ==
    {"none", "create_model", "deserialize", "generate_filetree",
     "generate_bd_files"}

\* the call of a step is made
called(fs, name) == [fs EXCEPT !.calls = Append(fs.calls, name)]

\* one statement of the function body: not reached once a statement before
\* it has raised; the step is called and raises when it is the failing one,
\* otherwise it leaves the files as done
statement(fs, name, failing_step, done) ==
    IF fs.ret # "none" THEN fs
    ELSE IF name = failing_step
         THEN [called(fs, name) EXCEPT !.ret = "error"]
         ELSE done

\* filetree.generate_filetree: a directory for every anchor of the model
generate_filetree(model, fs) ==
    [called(fs, "generate_filetree") EXCEPT
        !.tree = fs.tree \cup (1..Len(model))]

\* filetree.copy_building_files: files into the directories of the anchors
copy_building_files(model, fs) == called(fs, "copy_building_files")

\* common_prepare.generate_bd_files: the files of the BD stage
generate_bd_files(model, fs) == called(fs, "generate_bd_files")

\* model.serialize(xml_path)
serialize(model, fs) ==
    [called(fs, "serialize") EXCEPT !.xml = model]

\* the statements of generate_openmmvt_model_and_filetree from
\* generate_filetree to the return
generate_and_serialize(model, fs, failing_step) ==
    LET fs1 == statement(fs, "generate_filetree", failing_step,
                    generate_filetree(model, fs))
        fs2 == statement(fs1, "copy_building_files", failing_step,
                    copy_building_files(model, fs1))
        fs3 == statement(fs2, "generate_bd_files", failing_step,
                    generate_bd_files(model, fs2))
        fs4 == statement(fs3, "serialize", failing_step, serialize(model, fs3))
    IN  IF fs4.ret = "none" THEN [fs4 EXCEPT !.ret = "model"] ELSE fs4

\* the statements from the start to prepare_model_cvs_and_anchors
create_and_prepare(fs0, failing_step) ==
    LET fs == [fs0 EXCEPT !.calls = <<>>, !.ret = "none"]
        fs1 == statement(fs, "create_model", failing_step,
                    called(fs, "create_model"))
    IN  statement(fs1, "prepare_model_cvs_and_anchors", failing_step,
             called(fs1, "prepare_model_cvs_and_anchors"))

\* if os.path.exists(xml_path): deserialize the old model, modify_model
update_old_model(model, fs, force_overwrite, failing_step) ==
    IF fs.ret = "none" /\ fs.xml # NoFile
    THEN LET fs1 == statement(fs, "deserialize", failing_step,
                         called(fs, "deserialize"))
         IN  statement(fs1, "modify_model", failing_step,
                  modify_model(fs1.xml, model, called(fs1, "modify_model"),
                               force_overwrite))
    ELSE fs

\* the model written before the old one is read and compared
generate_model_and_filetree_serialize_first(model_input, force_overwrite, failing_step, fs0) ==
    LET model == create_model(model_input)
        fs1 == create_and_prepare(fs0, failing_step)
        fs2 == statement(fs1, "serialize", failing_step, serialize(model, fs1))
        fs3 == IF fs2.ret = "none" /\ fs0.xml # NoFile
               THEN modify_model(fs0.xml, model,
                        called(called(fs2, "deserialize"), "modify_model"),
                        force_overwrite)
               ELSE fs2
    IN  generate_and_serialize(model, fs3, failing_step)

\* the file tree generated before the old model is read and compared
generate_model_and_filetree_filetree_first(model_input, force_overwrite, failing_step, fs0) ==
    LET model == create_model(model_input)
        fs1 == create_and_prepare(fs0, failing_step)
        fs2 == statement(fs1, "generate_filetree", failing_step,
                    generate_filetree(model, fs1))
        fs3 == update_old_model(model, fs2, force_overwrite, failing_step)
        fs4 == statement(fs3, "copy_building_files", failing_step,
                    copy_building_files(model, fs3))
        fs5 == statement(fs4, "generate_bd_files", failing_step,
                    generate_bd_files(model, fs4))
        fs6 == statement(fs5, "serialize", failing_step, serialize(model, fs5))
    IN  IF fs6.ret = "none" THEN [fs6 EXCEPT !.ret = "model"] ELSE fs6

\* generate_openmmvt_model_and_filetree(model_input, force_overwrite); a
\* step of it may raise
generate_openmmvt_model_and_filetree(model_input, force_overwrite, failing_step, fs0) ==
    LET model == create_model(model_input)
        fs1 == create_and_prepare(fs0, failing_step)
        fs2 == update_old_model(model, fs1, force_overwrite, failing_step)
    IN  generate_and_serialize(model, fs2, failing_step)

\* the files of the root directory and what the last call did
FileSystem ==
    [xml |-> p_xml, tree |-> p_tree, outputs |-> p_outputs,
     calls |-> p_calls, ret |-> p_ret]

GenerateOpenmmvtModelAndFiletree ==
    /\ \E model_input \in ModelInputs, force_overwrite \in BOOLEAN,
          failing_step \in FailingSteps :
          LET fs == generate_openmmvt_model_and_filetree(
                        model_input, force_overwrite, failing_step,
                        FileSystem)
          IN  /\ p_arg' = [model_input |-> model_input,
                           force_overwrite |-> force_overwrite]
              /\ p_xml' = fs.xml
              /\ p_tree' = fs.tree
              /\ p_outputs' = fs.outputs
              /\ p_calls' = fs.calls
              /\ p_ret' = fs.ret
    /\ p_op' = "generate_openmmvt_model_and_filetree"
    /\ UNCHANGED not_prepare_vars

NoModelInput == [model_input |-> <<>>, force_overwrite |-> FALSE]

\* a simulation of an anchor of the model in model.xml that has its
\* directory writes output files into it
RunSimulation ==
    /\ \E i \in (p_tree \cap (1..Len(p_xml))) \ p_outputs :
          p_outputs' = p_outputs \cup {i}
    /\ p_op' = "run"
    /\ p_arg' = NoModelInput
    /\ p_calls' = <<>>
    /\ p_ret' = "none"
    /\ UNCHANGED <<p_xml, p_tree>>
    /\ UNCHANGED not_prepare_vars

\* an empty root directory
InitPrepare ==
    /\ p_xml = NoFile
    /\ p_tree = {}
    /\ p_outputs = {}
    /\ p_op = "none"
    /\ p_arg = NoModelInput
    /\ p_calls = <<>>
    /\ p_ret = "none"

NextPrepare ==
    \/ GenerateOpenmmvtModelAndFiletree
    \/ RunSimulation

----------------------------------------------------------------------------
(* The cleansing of a BD directory (runner_browndye2.cleanse_bd_outputs,  *)
(* test_runner_browndye2.py).                                             *)

\* file names, as the pieces a glob pattern tells apart: "results1.xml" is
\* <<"results", "1", ".xml">>
BdFileNames ==
    { <<"results", "1", ".xml">>, <<"results", "2", ".xml">>,
      <<"rec_lig", "_simulation", ".xml">>, <<"traj", "0_0", ".xml">>,
      <<"input", "", ".xml">>, <<"results", "1", ".txt">>,
      <<"rec_lig", "", ".pqr">> }

\* glob: results*.xml, *_simulation.xml, traj*.xml
matches_results_glob(name) == name[1] = "results" /\ name[3] = ".xml"
matches_simulation_glob(name) == name[2] = "_simulation" /\ name[3] = ".xml"
matches_traj_glob(name) == name[1] = "traj" /\ name[3] = ".xml"

\* the files of an old BD simulation in a directory
old_bd_files(directory) ==
    {name \in directory :
        \/ matches_results_glob(name)
        \/ matches_simulation_glob(name)
        \/ matches_traj_glob(name)}

\* a cleanse that forgets the trajectory files
cleanse_bd_outputs_keeps_traj(directory, check_mode) ==
    [ret |-> old_bd_files(directory) # {},
     directory |-> IF check_mode THEN directory
                   ELSE {name \in directory : ~matches_results_glob(name)
                                           /\ ~matches_simulation_glob(name)}]

\* cleanse_bd_outputs(directory, check_mode=True): whether the directory
\* holds files of an old BD simulation; they are removed unless check_mode
cleanse_bd_outputs(directory, check_mode) ==
    [ret |-> old_bd_files(directory) # {},
     directory |-> IF check_mode THEN directory
                   ELSE directory \ old_bd_files(directory)]

\* pathlib.Path(filename).touch()
Touch ==
    /\ \E name \in BdFileNames \ bd_directory :
          bd_directory' = bd_directory \cup {name}
    /\ bd_op' = "touch"
    /\ bd_check_mode' = TRUE
    /\ bd_ret' = FALSE
    /\ UNCHANGED not_bd_vars

CleanseBdOutputs ==
    /\ \E check_mode \in BOOLEAN :
          LET out == cleanse_bd_outputs(bd_directory, check_mode)
          IN  /\ bd_check_mode' = check_mode
              /\ bd_directory' = out.directory
              /\ bd_ret' = out.ret
    /\ bd_op' = "cleanse_bd_outputs"
    /\ UNCHANGED not_bd_vars

\* an empty directory
InitBD ==
    /\ bd_directory = {}
    /\ bd_op = "none"
    /\ bd_check_mode = TRUE
    /\ bd_ret = FALSE

NextBD ==
    \/ Touch
    \/ CleanseBdOutputs

----------------------------------------------------------------------------
(* The CV objects and what they give a boundary force: the names and the  *)
(* values of its variables (add_parameters, get_variable_values_list),    *)
(* the force itself (make_force_object, make_mmvt_boundary_definitions),  *)
(* and the NAMD strings.                                                  *)

\* the most order parameters (and weights) a Tiwary CV has
MaxOrderParameters == 2

\* "c{}".format(i)
c_names == <<"c0", "c1", "c2", "c3", "c4">>
weight_var(i) == c_names[i + 1]

MMVTClasses == {"spherical", "tiwary", "planar", "rmsd", "external"}
ElberClasses == {"elber_spherical", "elber_external"}
CvIndices == {0, 1}
WeightValues == {11, 12}
OrderParameterGroups == {1, 2}
MilestoneAliases == {1, 2, 3}
GroupCounts == {1, 2}

MinOf(a, b) == IF a < b THEN a ELSE b

\* self._mygroup_list: None, or the list of the groups added to the force
NoGroupList == [is_none |-> TRUE, items |-> <<>>]
GroupList(l) == [is_none |-> FALSE, items |-> l]

\* the fields of a CV object the operations read or write; weights is
\* order_parameter_weights, n_order_parameters the length of
\* order_parameters, op_num_groups what get_num_groups() of each gives
CVObject(class, index, num_groups, per_dof, global, expression) ==
    [class |-> class, index |-> index, num_groups |-> num_groups,
     per_dof_variables |-> per_dof, global_variables |-> global,
     openmm_expression |-> expression, mygroup_list |-> NoGroupList,
     n_order_parameters |-> 0, op_num_groups |-> 0, weights |-> <<>>]

\* MMVT_spherical_CV.__init__
spherical_init(index) ==
    CVObject("spherical", index, 2, <<"k", "radius">>, <<>>,
             "step(k*(distance(g1, g2)^2 - radius^2))")

\* MMVT_tiwary_CV.__init__ with assign_expressions_and_variables: a weight
\* variable for every pair of zip(order_parameters, order_parameter_weights)
tiwary_init(index, n_order_parameters, op_num_groups, weights) ==
    LET pairs == MinOf(n_order_parameters, Len(weights))
    IN  [CVObject("tiwary", index, pairs * op_num_groups,
                  [i \in 1..pairs |-> weight_var(i - 1)] \o <<"k", "value">>,
                  <<>>, "step(k*(c*op - value))")
            EXCEPT !.n_order_parameters = n_order_parameters,
                   !.op_num_groups = op_num_groups,
                   !.weights = weights]

\* MMVT_planar_CV.__init__
planar_init(index) ==
    CVObject("planar", index, 3, <<"k", "value">>, <<>>,
             "step(k*(projection - value))")

\* MMVT_RMSD_CV.__init__
rmsd_init(index) ==
    CVObject("rmsd", index, 1, <<>>, <<"k", "value">>,
             "step(k*(RMSD - value))")

\* MMVT_external_CV.__init__ leaves openmm_expression None; the expression
\* is set on the object afterwards
external_init(index, n_groups, expression) ==
    CVObject("external", index, n_groups, <<"k", "value">>, <<>>, expression)

\* Elber_spherical_CV.__init__, Elber_external_CV.__init__
elber_spherical_init(index) ==
    CVObject("elber_spherical", index, 2, <<"k", "radius">>, <<>>,
             "step(k*(distance(g1, g2)^2 - radius^2))")
elber_external_init(index, n_groups) ==
    CVObject("elber_external", index, n_groups, <<"k", "value">>, <<>>, "None")

WeightLists == UNION {[1..n -> WeightValues] : n \in 0..MaxOrderParameters}

CVObjects ==
    UNION { {spherical_init(i), planar_init(i), rmsd_init(i),
             elber_spherical_init(i)}
            \cup {external_init(i, g, e) : g \in GroupCounts,
                      e \in {"None", "step(k*(x1 - value))"}}
            \cup {elber_external_init(i, g) : g \in GroupCounts}
            \cup {tiwary_init(i, n, g, w) : n \in 0..MaxOrderParameters,
                      g \in OrderParameterGroups, w \in WeightLists}
          : i \in CvIndices }

\* milestone.variables of a milestone of a CV of the class: k, the radius
\* or the value, and for a Tiwary CV its weights as c0, c1, ...
\* (get_variable_values gives them as the extra CV variables)
VariablesOfClass(class, weights) ==
    IF class \in {"spherical", "elber_spherical"}
    THEN {[key \in {"k", "radius"} |-> IF key = "k" THEN k ELSE r] :
              k \in {-1, 1}, r \in {300, 400}}
    ELSE IF class = "tiwary"
    THEN {[key \in {"k", "value"} \cup {weight_var(i - 1) : i \in 1..Len(weights)}
              |-> IF key = "k" THEN k
                  ELSE IF key = "value" THEN v
                  ELSE weights[CHOOSE i \in 1..Len(weights) :
                                   weight_var(i - 1) = key]] :
              k \in {-1, 1}, v \in {300, 400}}
    ELSE {[key \in {"k", "value"} |-> IF key = "k" THEN k ELSE v] :
              k \in {-1, 1}, v \in {300, 400}}

\* the milestones a CV object is asked about: its own, with its kind of
\* variables, and those of another CV of the model
MilestonesFor(cv) ==
    UNION { {[cv_index |-> cv_index, alias_index |-> alias_index,
              variables |-> variables] :
                 alias_index \in MilestoneAliases,
                 variables \in
                    IF cv_index = cv.index
                    THEN VariablesOfClass(cv.class, cv.weights)
                    ELSE VariablesOfClass("spherical", <<>>)
                         \cup VariablesOfClass("planar", <<>>)}
          : cv_index \in CvIndices }

\* a number with its unit (parmed.unit), or without one
Quantity(val, unit) == [val |-> val, unit |-> unit]
Plain(val) == [val |-> val, unit |-> "none"]

\* what a method gave back: nothing yet, a list (of names or of values),
\* None, a string, a force (held in v_force), or an exception with its text
NoResult == [kind |-> "none", list |-> <<>>, text |-> ""]
ReturnList(l) == [kind |-> "return", list |-> l, text |-> "list"]
ReturnNone == [kind |-> "return", list |-> <<>>, text |-> "None"]
ReturnString == [kind |-> "return", list |-> <<>>, text |-> "str"]
ReturnForce == [kind |-> "return", list |-> <<>>, text |-> "force"]
RaiseError(text) == [kind |-> "raise", list |-> <<>>, text |-> text]

\* an OpenMM force object: its class, the number of groups of a bond, its
\* expression ("bitcode*" + the CV's), its force group, the groups, the
\* names of the per-bond parameters, the global parameters with their
\* values, the collective variables and the bonds added to it
NoForce ==
    [type |-> "none", num_groups |-> 0, expression |-> <<>>,
     force_group |-> 0, groups |-> <<>>, per_bond_parameters |-> <<>>,
     global_parameters |-> <<>>, collective_variables |-> <<>>,
     bonds |-> <<>>]
NewForce(type, num_groups, expression) ==
    [NoForce EXCEPT !.type = type, !.num_groups = num_groups,
                    !.expression = <<"bitcode*", expression>>]

\* make_force_object of the MMVT CV classes: the assertion on num_groups,
\* then the force with expression_w_bitcode
make_force_object(cv) ==
    LET assertion ==
            CASE cv.class = "spherical" -> cv.num_groups = 2
              [] cv.class = "tiwary" -> cv.num_groups > 1
              [] cv.class = "planar" -> cv.num_groups = 3
              [] cv.class = "rmsd" -> cv.num_groups = 1
              [] OTHER -> TRUE
    IN  IF ~assertion
        THEN [force |-> NoForce, ret |-> RaiseError("AssertionError")]
        ELSE IF cv.openmm_expression = "None"
        THEN [force |-> NoForce, ret |-> RaiseError("TypeError")]
        ELSE [force |->
                 IF cv.class = "rmsd"
                 THEN NewForce("CustomCVForce", 0, cv.openmm_expression)
                 ELSE NewForce("CustomCentroidBondForce", cv.num_groups,
                               cv.openmm_expression),
              ret |-> ReturnForce]

\* the groups add_parameters adds to the force: group1 and group2, the
\* groups of every order parameter, start, end and mobile group, or
\* self.groups
groups_added(cv) ==
    CASE cv.class = "spherical" -> 2
      [] cv.class = "tiwary" -> cv.n_order_parameters * cv.op_num_groups
      [] cv.class = "planar" -> 3
      [] OTHER -> cv.num_groups

\* the names list with the bitcode after the other variables
add_parameters_bitcode_last(cv, force) ==
    [cv |-> cv, force |-> force,
     ret |-> ReturnList(cv.per_dof_variables \o cv.global_variables
                        \o <<"bitcode">>)]

\* add_parameters(force): the groups added to the force and kept in
\* self._mygroup_list (addGroup returns the index of the group), then
\* "bitcode", the per-dof variables as per-bond parameters and the global
\* variables as global parameters, all in variable_names_list; the RMSD CV
\* only adds the collective variable "RMSD" and returns None
add_parameters(cv, force) ==
    IF cv.class = "rmsd"
    THEN [cv |-> cv,
          force |-> [force EXCEPT !.collective_variables = @ \o <<"RMSD">>],
          ret |-> ReturnNone]
    ELSE LET first == Len(force.groups)
             mygroup_list == [i \in 1..groups_added(cv) |-> first + i - 1]
         IN  [cv |-> [cv EXCEPT !.mygroup_list = GroupList(mygroup_list)],
              force |-> [force EXCEPT
                  !.groups = @ \o mygroup_list,
                  !.per_bond_parameters =
                      @ \o <<"bitcode">> \o cv.per_dof_variables,
                  !.global_parameters = @ \o
                      [i \in 1..Len(cv.global_variables) |->
                          [name |-> cv.global_variables[i],
                           value |-> Plain(0)]]],
              ret |-> ReturnList(<<"bitcode">> \o cv.per_dof_variables
                                 \o cv.global_variables)]

\* the keys of milestone.variables a values list is made of, in the order
\* the values are appended after the bitcode
value_keys(cv) ==
    CASE cv.class \in {"spherical", "elber_spherical"} -> <<"k", "radius">>
      [] cv.class = "tiwary" ->
            [i \in 1..cv.n_order_parameters |-> weight_var(i - 1)]
      [] OTHER -> <<"k", "value">>

\* the units the values are multiplied by
unit_of(cv, key) ==
    CASE cv.class \in {"external", "elber_external"} -> "none"
      [] key = "k" /\ cv.class = "elber_spherical" -> "kilojoules_per_mole"
      [] key = "k" -> "kilojoules_per_mole/angstrom**2"
      [] key \in {"radius", "value"} -> "nanometers"
      [] OTHER -> "none"

\* the values of get_variable_values_list: read from milestone.variables
\* (a key that is not there is a KeyError), and the list: the bitcode
\* 2**(alias_index - 1) (not for the Elber CVs), for a Tiwary CV the c{i}
\* of every order parameter first and then k and the value, for the others
\* k and then the radius or the value
values_list(cv, milestone) ==
    LET keys == IF cv.class = "tiwary"
                THEN value_keys(cv) \o <<"k", "value">>
                ELSE value_keys(cv)
        bitcode == IF cv.class \in ElberClasses THEN <<>>
                   ELSE <<Plain(2 ^ (milestone.alias_index - 1))>>
    IN  IF \E i \in 1..Len(keys) :
                keys[i] \notin DOMAIN milestone.variables
        THEN RaiseError("KeyError")
        ELSE ReturnList(bitcode \o
                 [i \in 1..Len(keys) |->
                     Quantity(milestone.variables[keys[i]],
                              unit_of(cv, keys[i]))])

\* the values list made without looking at milestone.cv_index
get_variable_values_list_unasserted(cv, milestone) ==
    values_list(cv, milestone)

\* get_variable_values_list(milestone): the assertion that the milestone
\* is of this CV, then the values list
get_variable_values_list(cv, milestone) ==
    IF milestone.cv_index # cv.index
    THEN RaiseError("AssertionError")
    ELSE values_list(cv, milestone)

\* add_groups_and_variables(force, variables): the assertion on the number
\* of groups and addBond; the RMSD CV adds bitcode, k and value as global
\* parameters
add_groups_and_variables(cv, force, variables) ==
    IF cv.class = "rmsd"
    THEN IF Len(variables) < 3
         THEN [force |-> force, ret |-> RaiseError("IndexError")]
         ELSE [force |-> [force EXCEPT !.global_parameters = @ \o
                     <<[name |-> "bitcode", value |-> variables[1]],
                       [name |-> "k", value |-> variables[2]],
                       [name |-> "value", value |-> variables[3]]>>],
               ret |-> ReturnNone]
    ELSE IF cv.mygroup_list.is_none
    THEN [force |-> force, ret |-> RaiseError("TypeError")]
    ELSE IF Len(cv.mygroup_list.items) # cv.num_groups
    THEN [force |-> force, ret |-> RaiseError("AssertionError")]
    ELSE [force |-> [force EXCEPT !.bonds = @ \o
                        <<[groups |-> cv.mygroup_list.items,
                           parameters |-> variables]>>],
          ret |-> ReturnNone]

\* the outcome of a call, with the CV and the force as it leaves them and
\* the calls it made
Outcome(cv, force, ret, calls) ==
    [cv |-> cv, force |-> force, ret |-> ret, calls |-> calls]

\* the force group set after the parameters, from the values list
make_mmvt_boundary_definitions_group_last(cv, milestone) ==
    LET made == make_force_object(cv)
        named == add_parameters(cv, made.force)
        values == get_variable_values_list(named.cv, milestone)
        added == add_groups_and_variables(named.cv, named.force, values.list)
    IN  IF made.ret.kind = "raise" \/ values.kind = "raise"
           \/ added.ret.kind = "raise"
        THEN Outcome(cv, NoForce, RaiseError("Exception"), <<>>)
        ELSE Outcome(named.cv,
                 [added.force EXCEPT !.force_group = values.list[1].val],
                 ReturnForce,
                 <<"make_force_object", "add_parameters",
                   "get_variable_values_list", "add_groups_and_variables",
                   "setForceGroup">>)

\* make_mmvt_boundary_definitions(cv, milestone)
make_mmvt_boundary_definitions(cv, milestone) ==
    LET made == make_force_object(cv)
        calls1 == <<"make_force_object">>
        \* myforce.setForceGroup(milestone.alias_index)
        grouped == [made.force EXCEPT !.force_group = milestone.alias_index]
        calls2 == calls1 \o <<"setForceGroup">>
        named == add_parameters(cv, grouped)
        calls3 == calls2 \o <<"add_parameters">>
        values == get_variable_values_list(named.cv, milestone)
        calls4 == calls3 \o <<"get_variable_values_list">>
        added == add_groups_and_variables(named.cv, named.force, values.list)
        calls5 == calls4 \o <<"add_groups_and_variables">>
    IN  IF made.ret.kind = "raise"
        THEN Outcome(cv, NoForce, made.ret, calls1)
        ELSE IF values.kind = "raise"
        THEN Outcome(named.cv, NoForce, values, calls4)
        ELSE IF added.ret.kind = "raise"
        THEN Outcome(named.cv, NoForce, added.ret, calls5)
        ELSE Outcome(named.cv, added.force, ReturnForce, calls5)

\* make_namd_colvar_string() and get_namd_evaluation_string(milestone):
\* strings for the spherical CV (the second after the assertion on
\* milestone.cv_index), an exception for the other MMVT CVs
namd_exception(cv) ==
    CASE cv.class = "tiwary" ->
            RaiseError("MMVT Tiwary CVs are not available in NAMD")
      [] cv.class = "planar" ->
            RaiseError("MMVT Planar CVs are not available in NAMD")
      [] cv.class = "rmsd" ->
            RaiseError("MMVT RMSD CVs are not available in NAMD")
      [] cv.class = "external" ->
            RaiseError("MMVT External CVs are not available in NAMD")

\* a colvar string for every CV
make_namd_colvar_string_any(cv) == ReturnString

make_namd_colvar_string(cv) ==
    IF cv.class = "spherical" THEN ReturnString ELSE namd_exception(cv)

get_namd_evaluation_string(cv, milestone) ==
    IF cv.class = "spherical"
    THEN IF milestone.cv_index # cv.index THEN RaiseError("AssertionError")
         ELSE IF ~({"k", "radius"} \subseteq DOMAIN milestone.variables)
         THEN RaiseError("KeyError")
         ELSE ReturnString
    ELSE namd_exception(cv)

\* cv.make_force_object()
MakeForceObject ==
    /\ v_cv.class \in MMVTClasses
    /\ LET made == make_force_object(v_cv)
       IN  /\ v_force' = made.force
           /\ v_ret' = made.ret
    /\ v_op' = "make_force_object"
    /\ v_calls' = <<>>
    /\ UNCHANGED <<v_cv, v_milestone, v_names>>
    /\ UNCHANGED not_cvobj_vars

\* cv.add_parameters(force), on a force that was just made
AddParameters ==
    /\ v_cv.class \in MMVTClasses
    /\ v_force.type # "none"
    /\ v_force.per_bond_parameters = <<>>
    /\ v_force.collective_variables = <<>>
    /\ LET named == add_parameters(v_cv, v_force)
       IN  /\ v_cv' = named.cv
           /\ v_force' = named.force
           /\ v_names' = named.ret
           /\ v_ret' = named.ret
    /\ v_op' = "add_parameters"
    /\ v_calls' = <<>>
    /\ UNCHANGED v_milestone
    /\ UNCHANGED not_cvobj_vars

\* cv.get_variable_values_list(milestone)
GetVariableValuesList ==
    /\ v_ret' = get_variable_values_list(v_cv, v_milestone)
    /\ v_op' = "get_variable_values_list"
    /\ v_calls' = <<>>
    /\ UNCHANGED <<v_cv, v_milestone, v_force, v_names>>
    /\ UNCHANGED not_cvobj_vars

\* make_mmvt_boundary_definitions(cv, milestone)
MakeMmvtBoundaryDefinitions ==
    /\ v_cv.class \in MMVTClasses
    /\ LET out == make_mmvt_boundary_definitions(v_cv, v_milestone)
       IN  /\ v_cv' = out.cv
           /\ v_force' = out.force
           /\ v_ret' = out.ret
           /\ v_calls' = out.calls
    /\ v_op' = "make_mmvt_boundary_definitions"
    /\ UNCHANGED <<v_milestone, v_names>>
    /\ UNCHANGED not_cvobj_vars

\* cv.make_namd_colvar_string()
MakeNamdColvarString ==
    /\ v_cv.class \in MMVTClasses
    /\ v_ret' = make_namd_colvar_string(v_cv)
    /\ v_op' = "make_namd_colvar_string"
    /\ v_calls' = <<>>
    /\ UNCHANGED <<v_cv, v_milestone, v_force, v_names>>
    /\ UNCHANGED not_cvobj_vars

\* cv.get_namd_evaluation_string(milestone)
GetNamdEvaluationString ==
    /\ v_cv.class \in MMVTClasses
    /\ v_ret' = get_namd_evaluation_string(v_cv, v_milestone)
    /\ v_op' = "get_namd_evaluation_string"
    /\ v_calls' = <<>>
    /\ UNCHANGED <<v_cv, v_milestone, v_force, v_names>>
    /\ UNCHANGED not_cvobj_vars

\* a CV object as its __init__ leaves it, and a milestone of the model
InitCVObject ==
    /\ v_cv \in CVObjects
    /\ v_milestone \in MilestonesFor(v_cv)
    /\ v_force = NoForce
    /\ v_names = NoResult
    /\ v_op = "__init__"
    /\ v_ret = NoResult
    /\ v_calls = <<>>

NextCVObject ==
    \/ MakeForceObject
    \/ AddParameters
    \/ GetVariableValuesList
    \/ MakeMmvtBoundaryDefinitions
    \/ MakeNamdColvarString
    \/ GetNamdEvaluationString

----------------------------------------------------------------------------
(* The factory of the OpenMM simulation objects (mmvt_sim_openmm.py):     *)
(* add_integrator, add_forces, add_simulation, create_sim_openmm.         *)

\* the most milestones of the anchor a simulation is made for, and the
\* most boundary forces a system is given
MaxAnchorMilestones == 2
MaxForces == 2

\* a value that may be None
NoneValue == [is_none |-> TRUE, val |-> 0]
Some(v) == [is_none |-> FALSE, val |-> v]

\* model.openmm_settings.langevin_integrator: None, or the settings with
\* their timestep, random_seed and rigid_tolerance
LangevinSettings ==
    {[is_none |-> TRUE, timestep |-> 0, random_seed |-> NoneValue,
      rigid_tolerance |-> NoneValue]}
    \cup [is_none : {FALSE}, timestep : {2},
          random_seed : {NoneValue, Some(7)},
          rigid_tolerance : {NoneValue, Some(1)}]

StatePrefixes == {NoneValue, Some(1)}

\* model.collective_variables
CollectiveVariables ==
    { <<spherical_init(0), planar_init(1)>>,
      <<rmsd_init(0), tiwary_init(1, 1, 2, <<11>>)>> }

\* anchor.milestones: milestones of the CVs of the model, the milestone of
\* the c-th CV with the c-th alias
AnchorMilestones(cvs) ==
    UNION { [1..n ->
                {[cv_index |-> cvs[c].index,
                  alias_index |-> c,
                  variables |-> CHOOSE v \in VariablesOfClass(cvs[c].class,
                                                 cvs[c].weights) : TRUE]
                    : c \in 1..Len(cvs)}]
          : n \in 0..MaxAnchorMilestones }

Models ==
    UNION { [langevin_integrator : LangevinSettings,
             collective_variables : {cvs},
             milestones : AnchorMilestones(cvs)]
          : cvs \in CollectiveVariables }

\* sim_openmm.system, .integrator and .simulation: None, or the object
NoSystem == [is_none |-> TRUE, forces |-> <<>>]
NoIntegrator ==
    [is_none |-> TRUE, timestep |-> 0, milestone_groups |-> <<>>,
     set |-> <<>>]
NoSimulation == [is_none |-> TRUE, forces |-> <<>>, milestone_groups |-> <<>>]

\* MMVT_sim_openmm.__init__
MMVT_sim_openmm ==
    [system |-> NoSystem, integrator |-> NoIntegrator,
     simulation |-> NoSimulation, timestep |-> NoneValue,
     generic |-> FALSE, barostat |-> FALSE, platform |-> FALSE]

\* what a method of the factory did: the sim_openmm and the CVs of the model
\* as it leaves them, and what it returned or raised
Done(sim, cvs, ret) == [sim |-> sim, cvs |-> cvs, ret |-> ret]

\* an integrator is made whatever the settings
add_integrator_default(sim, model, state_prefix) ==
    Done([sim EXCEPT !.timestep = Some(2),
                     !.integrator = [NoIntegrator EXCEPT !.is_none = FALSE,
                                                         !.timestep = 2]],
         model.collective_variables, ReturnNone)

\* add_integrator(model, output_filename, state_prefix)
add_integrator(sim, model, state_prefix) ==
    LET settings == model.langevin_integrator
    IN  IF ~settings.is_none
        THEN Done([sim EXCEPT
                 !.timestep = Some(settings.timestep),
                 !.integrator =
                     [is_none |-> FALSE, timestep |-> settings.timestep,
                      milestone_groups |-> <<>>,
                      set |->
                         (IF ~settings.random_seed.is_none
                          THEN <<"setRandomNumberSeed">> ELSE <<>>)
                         \o (IF ~settings.rigid_tolerance.is_none
                             THEN <<"setConstraintTolerance">> ELSE <<>>)
                         \o (IF ~state_prefix.is_none
                             THEN <<"setSaveStateFileName">> ELSE <<>>)]],
                 model.collective_variables, ReturnNone)
        ELSE Done(sim, model.collective_variables,
                  RaiseError("Settings not provided for available integrator type(s)."))

\* milestone.get_CV(model): the CV of the model with the milestone's index
get_CV(cvs, milestone) ==
    CHOOSE c \in 1..Len(cvs) : cvs[c].index = milestone.cv_index

RECURSIVE add_forces_groups_only(_, _, _, _)
\* the milestone groups registered, the forces left out of the system
add_forces_groups_only(sim, cvs, anchor_milestones, i) ==
    IF i > Len(anchor_milestones) THEN Done(sim, cvs, ReturnNone)
    ELSE add_forces_groups_only(
             [sim EXCEPT !.integrator.milestone_groups =
                             Append(@, anchor_milestones[i].alias_index)],
             cvs, anchor_milestones, i + 1)

RECURSIVE add_forces_loop(_, _, _, _)
\* the loop of add_forces from milestone i on: the CV of the milestone, its
\* boundary definition, integrator.addMilestoneGroup(alias_index),
\* system.addForce(myforce); an integrator or a system that is None raises
\* an AttributeError
add_forces_loop(sim, cvs, anchor_milestones, i) ==
    IF i > Len(anchor_milestones) THEN Done(sim, cvs, ReturnNone)
    ELSE LET milestone == anchor_milestones[i]
             c == get_CV(cvs, milestone)
             made == make_mmvt_boundary_definitions(cvs[c], milestone)
             cvs1 == [cvs EXCEPT ![c] = made.cv]
             sim1 == [sim EXCEPT !.integrator.milestone_groups =
                                     Append(@, milestone.alias_index)]
             sim2 == [sim1 EXCEPT !.system.forces = Append(@, made.force)]
         IN  IF made.ret.kind = "raise" THEN Done(sim, cvs1, made.ret)
             ELSE IF sim.integrator.is_none
             THEN Done(sim, cvs1, RaiseError("AttributeError"))
             ELSE IF sim.system.is_none
             THEN Done(sim1, cvs1, RaiseError("AttributeError"))
             ELSE add_forces_loop(sim2, cvs1, anchor_milestones, i + 1)

\* add_forces(model, anchor)
add_forces(sim, model) ==
    add_forces_loop(sim, model.collective_variables, model.milestones, 1)

\* add_simulation(model, topology, positions, box_vectors): the Simulation
\* with its context is made of the system and the integrator as they are
\* (without one of them it cannot be made), then the assertion on
\* sim_openmm.timestep
add_simulation(sim, model) ==
    IF sim.system.is_none \/ sim.integrator.is_none
    THEN Done(sim, model.collective_variables, RaiseError("TypeError"))
    ELSE LET sim1 == [sim EXCEPT !.simulation =
                         [is_none |-> FALSE, forces |-> sim.system.forces,
                          milestone_groups |->
                              sim.integrator.milestone_groups]]
         IN  IF sim1.timestep.is_none
             THEN Done(sim1, model.collective_variables,
                       RaiseError("AssertionError"))
             ELSE Done(sim1, model.collective_variables, ReturnNone)

\* fill_generic_parameters, create_openmm_system (a new system, with no
\* boundary force), add_barostat, add_platform of Common_sim_openmm_factory
fill_generic_parameters(sim) == [sim EXCEPT !.generic = TRUE]
create_openmm_system(sim) == [is_none |-> FALSE, forces |-> <<>>]
add_barostat(sim) == [sim EXCEPT !.barostat = TRUE]
add_platform(sim) == [sim EXCEPT !.platform = TRUE]

\* what create_sim_openmm did: as Done, with the calls it made
Created(done, calls) ==
    [sim |-> done.sim, cvs |-> done.cvs, ret |-> done.ret, calls |-> calls]

ReturnSim == [kind |-> "return", list |-> <<>>, text |-> "sim_openmm"]

\* one call of create_sim_openmm: not made once a call before it has
\* raised; otherwise it is made and leaves the sim_openmm as done
next_call(created, name, done) ==
    IF created.ret.kind = "raise" THEN created
    ELSE Created(done, Append(created.calls, name))

\* the calls of create_sim_openmm, each on what the calls before it left
call_fill_generic_parameters(created) ==
    next_call(created, "fill_generic_parameters",
        Done(fill_generic_parameters(created.sim), created.cvs, ReturnNone))

call_create_openmm_system(created) ==
    next_call(created, "create_openmm_system",
        Done([created.sim EXCEPT !.system = create_openmm_system(created.sim)],
             created.cvs, ReturnNone))

call_add_integrator(created, model, state_prefix) ==
    next_call(created, "add_integrator",
        add_integrator(created.sim, model, state_prefix))

call_add_barostat(created) ==
    next_call(created, "add_barostat",
        Done(add_barostat(created.sim), created.cvs, ReturnNone))

call_add_platform(created) ==
    next_call(created, "add_platform",
        Done(add_platform(created.sim), created.cvs, ReturnNone))

call_add_forces(created, model) ==
    next_call(created, "add_forces",
        add_forces(created.sim,
                   [model EXCEPT !.collective_variables = created.cvs]))

call_add_simulation(created, model) ==
    next_call(created, "add_simulation",
        add_simulation(created.sim,
                   [model EXCEPT !.collective_variables = created.cvs]))

\* return self.sim_openmm
return_sim_openmm(created) ==
    IF created.ret.kind = "raise" THEN created
    ELSE [created EXCEPT !.ret = ReturnSim]

\* the factory's sim_openmm and the model before the first call
no_call(sim0, model) ==
    Created(Done(sim0, model.collective_variables, ReturnNone), <<>>)

\* the boundary forces added before there is an integrator
create_sim_openmm_forces_first(sim0, model, state_prefix) ==
    return_sim_openmm(
      call_add_simulation(
        call_add_platform(
          call_add_barostat(
            call_add_integrator(
              call_add_forces(
                call_create_openmm_system(
                  call_fill_generic_parameters(no_call(sim0, model))),
                model),
              model, state_prefix))),
        model))

\* create_sim_openmm(model, anchor, output_filename, state_prefix)
create_sim_openmm(sim0, model, state_prefix) ==
    return_sim_openmm(
      call_add_simulation(
        call_add_forces(
          call_add_platform(
            call_add_barostat(
              call_add_integrator(
                call_create_openmm_system(
                  call_fill_generic_parameters(no_call(sim0, model))),
                model, state_prefix))),
          model),
        model))

\* factory.add_integrator(model, output_filename, state_prefix)
AddIntegrator ==
    /\ \E state_prefix \in StatePrefixes :
          LET done == add_integrator(s_sim, s_model, state_prefix)
          IN  /\ s_arg' = state_prefix
              /\ s_sim' = done.sim
              /\ s_ret' = done.ret
    /\ s_op' = "add_integrator"
    /\ s_calls' = <<>>
    /\ UNCHANGED <<s_model, s_before>>
    /\ UNCHANGED not_sim_vars

\* factory.add_forces(model, anchor)
AddForces ==
    /\ Len(s_sim.system.forces) + Len(s_model.milestones) <= MaxForces
    /\ Len(s_sim.integrator.milestone_groups) + Len(s_model.milestones)
          <= MaxForces
    /\ LET done == add_forces(s_sim, s_model)
       IN  /\ s_sim' = done.sim
           /\ s_model' = [s_model EXCEPT !.collective_variables = done.cvs]
           /\ s_ret' = done.ret
    /\ s_before' = s_sim
    /\ s_op' = "add_forces"
    /\ s_arg' = NoneValue
    /\ s_calls' = <<>>
    /\ UNCHANGED not_sim_vars

\* factory.add_simulation(model, topology, positions, box_vectors)
AddSimulation ==
    /\ LET done == add_simulation(s_sim, s_model)
       IN  /\ s_sim' = done.sim
           /\ s_ret' = done.ret
    /\ s_op' = "add_simulation"
    /\ s_arg' = NoneValue
    /\ s_calls' = <<>>
    /\ UNCHANGED <<s_model, s_before>>
    /\ UNCHANGED not_sim_vars

\* factory.create_sim_openmm(model, anchor, output_filename, state_prefix)
CreateSimOpenmm ==
    /\ \E state_prefix \in StatePrefixes :
          LET created == create_sim_openmm(s_sim, s_model, state_prefix)
          IN  /\ s_arg' = state_prefix
              /\ s_sim' = created.sim
              /\ s_model' = [s_model EXCEPT
                                !.collective_variables = created.cvs]
              /\ s_ret' = created.ret
              /\ s_calls' = created.calls
    /\ s_op' = "create_sim_openmm"
    /\ UNCHANGED s_before
    /\ UNCHANGED not_sim_vars

\* the settings of the Langevin integrator taken out of the model
ClearLangevinIntegrator ==
    /\ ~s_model.langevin_integrator.is_none
    /\ s_model' = [s_model EXCEPT !.langevin_integrator =
                      CHOOSE l \in LangevinSettings : l.is_none]
    /\ s_op' = "clear_langevin_integrator"
    /\ s_arg' = NoneValue
    /\ s_ret' = NoResult
    /\ s_calls' = <<>>
    /\ UNCHANGED <<s_sim, s_before>>
    /\ UNCHANGED not_sim_vars

\* MMVT_sim_openmm_factory.__init__, and a model
InitSim ==
    /\ s_model \in Models
    /\ s_sim = MMVT_sim_openmm
    /\ s_before = MMVT_sim_openmm
    /\ s_op = "__init__"
    /\ s_arg = NoneValue
    /\ s_ret = NoResult
    /\ s_calls = <<>>

NextSim ==
    \/ AddIntegrator
    \/ AddForces
    \/ AddSimulation
    \/ CreateSimOpenmm
    \/ ClearLangevinIntegrator

----------------------------------------------------------------------------
(* Specifications: one for each part of the program, the other parts left *)
(* as constructed, and one of all parts together.                          *)

\* the other parts, not called: no CV call
IdleCV ==
    /\ cv_op = "none"
    /\ cv_class = "spherical"
    /\ cv_args = NoArgs
    /\ cv_ret = NoRet

\* an anchor that is only constructed
IdleAnchor ==
    /\ anchor_class = "mmvt"
    /\ milestones = <<>>
    /\ a_op = "init"
    /\ a_arg = 0
    /\ a_ret = None

\* a boundary force that is only made
IdleForce ==
    /\ f_kind = "boundary"
    /\ f_variables = <<1, -1, 300>>
    /\ f_old_variables = NoVariables
    /\ ctx_parameters = NoContext
    /\ ctx_distance = 0
    /\ f_since_update = "never"
    /\ f_op = "add_groups_and_variables"
    /\ f_arg = 0
    /\ f_ret = NoEnergy

\* a CV object that is only constructed
IdleCVObject ==
    /\ v_cv = spherical_init(0)
    /\ v_milestone = [cv_index |-> 0, alias_index |-> 1,
                      variables |-> [k |-> -1, radius |-> 300]]
    /\ v_force = NoForce
    /\ v_names = NoResult
    /\ v_op = "__init__"
    /\ v_ret = NoResult
    /\ v_calls = <<>>

\* a factory that is only constructed
IdleSim ==
    /\ s_model = [langevin_integrator |->
                     CHOOSE l \in LangevinSettings : l.is_none,
                  collective_variables |-> <<spherical_init(0), planar_init(1)>>,
                  milestones |-> <<>>]
    /\ s_sim = MMVT_sim_openmm
    /\ s_before = MMVT_sim_openmm
    /\ s_op = "__init__"
    /\ s_arg = NoneValue
    /\ s_ret = NoResult
    /\ s_calls = <<>>

InitSpecCV ==
    /\ InitCV
    /\ IdleAnchor
    /\ IdleForce
    /\ InitPrepare
    /\ InitBD
    /\ IdleCVObject
    /\ IdleSim
SpecCV == InitSpecCV /\ [][NextCV]_vars

InitSpecAnchor ==
    /\ IdleCV
    /\ InitAnchor
    /\ IdleForce
    /\ InitPrepare
    /\ InitBD
    /\ IdleCVObject
    /\ IdleSim
SpecAnchor == InitSpecAnchor /\ [][NextAnchor]_vars

InitSpecForce ==
    /\ IdleCV
    /\ IdleAnchor
    /\ InitForce
    /\ InitPrepare
    /\ InitBD
    /\ IdleCVObject
    /\ IdleSim
SpecForce == InitSpecForce /\ [][NextForce]_vars

InitSpecPrepare ==
    /\ IdleCV
    /\ IdleAnchor
    /\ IdleForce
    /\ InitPrepare
    /\ InitBD
    /\ IdleCVObject
    /\ IdleSim
SpecPrepare == InitSpecPrepare /\ [][NextPrepare]_vars

InitSpecBD ==
    /\ IdleCV
    /\ IdleAnchor
    /\ IdleForce
    /\ InitPrepare
    /\ InitBD
    /\ IdleCVObject
    /\ IdleSim
SpecBD == InitSpecBD /\ [][NextBD]_vars

InitSpecCVObject ==
    /\ IdleCV
    /\ IdleAnchor
    /\ IdleForce
    /\ InitPrepare
    /\ InitBD
    /\ InitCVObject
    /\ IdleSim
SpecCVObject == InitSpecCVObject /\ [][NextCVObject]_vars

InitSpecSim ==
    /\ IdleCV
    /\ IdleAnchor
    /\ IdleForce
    /\ InitPrepare
    /\ InitBD
    /\ IdleCVObject
    /\ InitSim
SpecSim == InitSpecSim /\ [][NextSim]_vars

Init ==
    /\ InitCV
    /\ InitAnchor
    /\ InitForce
    /\ InitPrepare
    /\ InitBD
    /\ InitCVObject
    /\ InitSim

Next ==
    \/ NextCV
    \/ NextAnchor
    \/ NextForce
    \/ NextPrepare
    \/ NextBD
    \/ NextCVObject
    \/ NextSim

Spec == Init /\ [][Next]_vars

----------------------------------------------------------------------------
(* Properties of the CV checks, under SpecCV *)

\* the milestone value of milestone_variables: "radius" of the spherical
\* CVs, "value" of the others
MilestoneValueOf(cls, mv) ==
    IF cls \in {"spherical", "elber_spherical"} THEN mv.radius ELSE mv.value

CvReturned(op) == cv_op = op /\ cv_ret.kind = "return"

\* C1: check_value_within_boundary(v, {k, m}, tolerance=t) of the spherical,
\* Tiwary, planar and RMSD CVs returns False exactly when k*(v - m) > t and
\* True otherwise, whatever the sign of k; at tolerance 0 and k < 0 a value
\* above the milestone value is inside and one below it is outside, and a value
\* equal to the milestone value is inside at tolerance 0.
C1_CheckValueWithinBoundary ==
    CvReturned("check_value_within_boundary") =>
        LET v == cv_args.value
            k == cv_args.mv.k
            m == MilestoneValueOf(cv_class, cv_args.mv)
            t == cv_args.tolerance
        IN  /\ cv_ret.val = FALSE <=> k * (v - m) > t
            /\ cv_ret.val = TRUE <=> k * (v - m) <= t
            /\ (k < 0 /\ v > m /\ t >= 0) => cv_ret.val = TRUE
            /\ (k < 0 /\ v < m /\ t = 0) => cv_ret.val = FALSE
            /\ (v = m /\ t = 0) => cv_ret.val = TRUE

\* a value below the milestone value is outside when k < 0
C1_Witness ==
    /\ CvReturned("check_value_within_boundary")
    /\ cv_args.mv.k < 0
    /\ cv_args.value < MilestoneValueOf(cv_class, cv_args.mv)
    /\ cv_args.tolerance = 0
    /\ cv_ret.val = FALSE

\* the tolerance of the test of a frame: 0.0 for the spherical and RMSD CVs,
\* 0.001 for the Tiwary and planar CVs
FrameTolerance(cls) == IF cls \in {"spherical", "rmsd"} THEN 0 ELSE 1

FrameWithin(cls, v, mv) ==
    ~(mv.k * (v - MilestoneValueOf(cls, mv)) > FrameTolerance(cls))

\* C2: check_mdtraj_within_boundary returns True if and only if every frame
\* has a CV value within the boundary, stops at the first frame outside, and
\* returns True of a trajectory with no frame; a frame is tested with tolerance
\* 0.0 by the spherical and RMSD CVs and with 0.001 by the Tiwary and planar CVs.
C2_CheckMdtrajWithinBoundary ==
    CvReturned("check_mdtraj_within_boundary") =>
        LET traj == cv_args.traj
            outside == {i \in 1..Len(traj) : ~FrameWithin(cv_class, traj[i], cv_args.mv)}
        IN  /\ cv_ret.val = TRUE <=> outside = {}
            /\ outside # {} =>
                  /\ cv_ret.frames \in outside
                  /\ \A i \in outside : cv_ret.frames <= i
            /\ outside = {} => cv_ret.frames = Len(traj)
            /\ Len(traj) = 0 => cv_ret.val = TRUE

\* a planar trajectory whose first frame is within the boundary only by the
\* tolerance 0.001 and whose second frame is outside: False, the third frame
\* not looked at
C2_Witness ==
    /\ CvReturned("check_mdtraj_within_boundary")
    /\ cv_class = "planar"
    /\ Len(cv_args.traj) = 3
    /\ cv_args.mv.k * (cv_args.traj[1] - cv_args.mv.value) = 1
    /\ cv_ret.val = FALSE
    /\ cv_ret.frames = 2

\* C3: check_openmm_context_within_boundary of an external CV always returns
\* True, for every context, positions and milestone_variables.
C3_ExternalContextCheckAlwaysTrue ==
    (cv_op = "check_openmm_context_within_boundary" /\ cv_ret # NoRet) =>
        /\ cv_ret.kind = "return"
        /\ cv_ret.val = TRUE

\* |mean| <= max_avg and std <= max_std of the differences ds between the CV
\* values and the milestone value: with n values of sum s and sum of squares q
\* the mean is s/n and the variance q/n - (s/n)^2
MeanAndStdWithin(ds, max_avg, max_std) ==
    LET n == Len(ds)
        s == SumSeq(ds)
        q == SumSeq([i \in 1..n |-> ds[i] * ds[i]])
    IN  /\ Abs(s) <= max_avg * n
        /\ n * q - s * s <= max_std * max_std * n * n

Differences(cls, traj, mv) ==
    [i \in 1..Len(traj) |-> traj[i] - MilestoneValueOf(cls, mv)]

\* C4: check_mdtraj_close_to_boundary of the spherical and planar MMVT CVs and
\* of the Elber spherical CV returns True if and only if the absolute mean over
\* the frames of (CV value - milestone value) is at most max_avg and their
\* standard deviation is at most max_std; a trajectory held at the milestone
\* value passes, and fails against a milestone value 0.1 away with the default
\* max_avg. (Of no frame there is no mean: the code returns True.)
C4_CheckMdtrajCloseToBoundary ==
    (CvReturned("check_mdtraj_close_to_boundary") /\ cv_class \in CloseCVClasses) =>
        LET traj == cv_args.traj
            m == MilestoneValueOf(cv_class, cv_args.mv)
            ds == Differences(cv_class, traj, cv_args.mv)
        IN  /\ Len(traj) >= 1 =>
                (cv_ret.val = TRUE <=>
                    MeanAndStdWithin(ds, cv_args.max_avg, cv_args.max_std))
            /\ (Len(traj) >= 1 /\ \A i \in 1..Len(traj) : traj[i] = m) =>
                cv_ret.val = TRUE
            /\ (/\ Len(traj) >= 1
                /\ cv_args.max_avg = DefaultMaxAvg
                /\ \E c \in FrameValues :
                      /\ Abs(c - m) = 100
                      /\ \A i \in 1..Len(traj) : Abs(traj[i] - c) <= 1) =>
                cv_ret.val = FALSE
            /\ Len(traj) = 0 => cv_ret.val = TRUE

\* a trajectory held at 0.4 and checked against the milestone value 0.5 with
\* the defaults fails
C4_Witness ==
    /\ CvReturned("check_mdtraj_close_to_boundary")
    /\ cv_class \in CloseCVClasses
    /\ Len(cv_args.traj) = 3
    /\ \A i \in 1..3 : Abs(cv_args.traj[i] - 400) <= 1
    /\ MilestoneValueOf(cv_class, cv_args.mv) = 500
    /\ cv_args.max_avg = DefaultMaxAvg
    /\ cv_args.max_std = DefaultMaxStd
    /\ cv_ret.val = FALSE

\* C5: check_mdtraj_close_to_boundary of a Tiwary CV and of an RMSD CV returns
\* True if the system lies close to the boundary and False if it does not
\* (close as the other CVs measure it: mean and standard deviation of the
\* differences within max_avg and max_std).
C5_UnimplementedCloseCheckDecides ==
    (/\ CvReturned("check_mdtraj_close_to_boundary")
     /\ cv_class \in UnimplementedCloseCVClasses
     /\ Len(cv_args.traj) >= 1) =>
        (cv_ret.val = TRUE <=>
            MeanAndStdWithin(Differences(cv_class, cv_args.traj, cv_args.mv),
                             cv_args.max_avg, cv_args.max_std))
----------------------------------------------------------------------------
(* Properties of the anchor, under SpecAnchor *)

\* the milestones have pairwise distinct index and pairwise distinct
\* alias_index
DistinctMilestones(ms) ==
    \A i, j \in 1..Len(ms) :
        i # j => /\ ms[i].index # ms[j].index
                 /\ ms[i].alias_index # ms[j].alias_index

\* the places of the milestones whose neighbor_anchor_index is n
WithNeighbor(ms, n) == {j \in 1..Len(ms) : ms[j].neighbor_anchor_index = n}

Last(S) == CHOOSE j \in S : \A i \in S : i <= j

\* C7: of an anchor whose milestones have pairwise distinct index and pairwise
\* distinct alias_index, id_from_alias and alias_from_id are inverse to each
\* other on the indices and on the aliases of the anchor, and
\* alias_from_neighbor_id(n) is the alias of the milestone whose
\* neighbor_anchor_index is n (of the last one in the list, when several have it).
C7_AliasAndIdAreInverse ==
    DistinctMilestones(milestones) =>
        /\ \A j \in 1..Len(milestones) :
              LET i == milestones[j].index
                  a == milestones[j].alias_index
                  alias == alias_from_id(anchor_class, milestones, i)
                  id == id_from_alias(anchor_class, milestones, a)
              IN  /\ alias.kind = "value"
                  /\ id_from_alias(anchor_class, milestones, alias.val) = Value(i)
                  /\ id.kind = "value"
                  /\ alias_from_id(anchor_class, milestones, id.val) = Value(a)
        /\ \A n \in NeighborValues :
              LET with == WithNeighbor(milestones, n)
                  alias == alias_from_neighbor_id(anchor_class, milestones, n)
              IN  with # {} =>
                    /\ alias = Value(milestones[Last(with)].alias_index)
                    /\ \E j \in with : alias = Value(milestones[j].alias_index)
        /\ (a_op = "alias_from_id" /\ a_ret.kind = "value") =>
              id_from_alias(anchor_class, milestones, a_ret.val) = Value(a_arg)
        /\ (a_op = "id_from_alias" /\ a_ret.kind = "value") =>
              alias_from_id(anchor_class, milestones, a_ret.val) = Value(a_arg)

\* an Elber anchor of two distinct milestones, asked for the alias of an index
C7_Witness ==
    /\ DistinctMilestones(milestones)
    /\ Len(milestones) = 2
    /\ anchor_class = "elber"
    /\ a_op = "alias_from_id"
    /\ a_ret = Value(milestones[2].alias_index)
    /\ a_arg = milestones[2].index

LookupOps == {"id_from_alias", "alias_from_id", "alias_from_neighbor_id"}

\* the key the lookup was given belongs to no milestone of the anchor
KeyOfNoMilestone ==
    \A j \in 1..Len(milestones) :
        CASE a_op = "id_from_alias" -> milestones[j].alias_index # a_arg
          [] a_op = "alias_from_id" -> milestones[j].index # a_arg
          [] a_op = "alias_from_neighbor_id" -> milestones[j].neighbor_anchor_index # a_arg

C8_ReturnsNone ==
    /\ (a_op \in LookupOps /\ KeyOfNoMilestone) => a_ret = None
    /\ a_op \in LookupOps \cup {"get_ids"} => a_ret.kind # "raise"

C8_ChangesNothing ==
    a_op' \in LookupOps \cup {"get_ids"} => milestones' = milestones

\* C8: id_from_alias, alias_from_id and alias_from_neighbor_id return None, and
\* do not raise, when the alias, index or neighbor index belongs to no
\* milestone of the anchor (an anchor with no milestone included); no lookup and
\* no call of get_ids changes the list of milestones or a milestone.
C8_LookupsReturnNoneAndChangeNothing ==
    [] C8_ReturnsNone /\ [][C8_ChangesNothing]_vars

\* an anchor with milestones asked for the index of an alias that none has
C8_Witness ==
    /\ a_op = "id_from_alias"
    /\ Len(milestones) >= 1
    /\ KeyOfNoMilestone
    /\ a_ret = None

----------------------------------------------------------------------------
(* Properties of the boundary force and its update *)

\* the system of the context is outside the boundary the old variables gave
\* (the force's expression is not negative) and inside the one the new
\* variables give (the expression is negative)
OutsideOldBoundary ==
    f_old_variables[2] * (ctx_distance * ctx_distance
                          - f_old_variables[3] * f_old_variables[3]) >= 0
InsideNewBoundary ==
    f_variables[2] * (ctx_distance * ctx_distance
                      - f_variables[3] * f_variables[3]) < 0

\* the energy of force group `group` that the new variables give
EnergyOfNewVariables(group) ==
    IF f_kind = "boundary"
    THEN IF InsideNewBoundary THEN 0 ELSE f_variables[1]
    ELSE (ctx_distance - f_variables[group]) * (ctx_distance - f_variables[group])

\* C6: after update_groups_and_variables (update_voronoi_cv_boundary_forces)
\* has moved the boundary and the context has been reinitialized, the context
\* evaluates the force with the new values only: every energy read is the one
\* the new variables give, whatever the old ones were; a system outside the old
\* boundary and inside the new one has indicator 0, and
\* check_value_within_boundary, check_mdtraj_within_boundary and
\* check_openmm_context_within_boundary, given the new milestone variables,
\* return True for it.
C6_UpdatedBoundaryUsesNewValues ==
    f_since_update = "reinitialized" =>
        /\ ctx_parameters = f_variables
        /\ f_op = "getState" => f_ret = Energy(EnergyOfNewVariables(f_arg))
        /\ (f_kind = "boundary" /\ OutsideOldBoundary /\ InsideNewBoundary) =>
              /\ getPotentialEnergy(f_kind, ctx_parameters, ctx_distance, 1) = 0
              /\ f_op = "getState" => f_ret = Energy(0)
              /\ spherical_check_value_within_boundary(ctx_distance,
                     milestone_variables_of(f_variables), DefaultTolerance)
              /\ spherical_check_mdtraj_within_boundary(<<ctx_distance>>,
                     milestone_variables_of(f_variables)) = Return(TRUE, 1)
              /\ f_op = "check_openmm_context_within_boundary" =>
                     f_ret = Result(TRUE)

\* the boundary was moved over the system, the context reinitialized, and the
\* energy read is 0
C6_Witness ==
    /\ f_since_update = "reinitialized"
    /\ f_kind = "boundary"
    /\ OutsideOldBoundary
    /\ InsideNewBoundary
    /\ f_op = "getState"
    /\ f_ret = Energy(0)

----------------------------------------------------------------------------
(* Properties of the prepare stage *)

\* an anchor of the old model has output files and the new model input drops
\* the anchor or defines it differently
WouldOverwriteOutputs(model_input) ==
    \E i \in p_outputs :
        \/ i > Len(model_input)
        \/ model_input[i] # p_xml[i].definition

C9_Step ==
    (/\ p_op' = "generate_openmmvt_model_and_filetree"
     /\ p_xml # NoFile
     /\ ~p_arg'.force_overwrite) =>
        /\ p_outputs' = p_outputs
        /\ WouldOverwriteOutputs(p_arg'.model_input) => p_ret' # "model"
        /\ p_ret' = "exception" =>
              /\ p_xml' = p_xml
              /\ p_tree' = p_tree
              /\ \A j \in 1..Len(p_calls') :
                    p_calls'[j] \notin {"generate_filetree",
                        "copy_building_files", "generate_bd_files", "serialize"}

\* C9: a call of generate_openmmvt_model_and_filetree without force_overwrite,
\* in a root directory that has a model.xml, removes no output file of an
\* anchor; if the new model would overwrite output files of an anchor of the
\* old model it throws, and when it throws no file tree has been generated
\* (no anchor directory is added or removed) and model.xml is as it was.
C9_NoOverwriteWithoutForce == [][C9_Step]_vars

\* the call has thrown over the output files of an anchor of the old model
C9_Witness ==
    /\ p_op = "generate_openmmvt_model_and_filetree"
    /\ ~p_arg.force_overwrite
    /\ p_ret = "exception"
    /\ p_xml # NoFile
    /\ p_outputs # {}

----------------------------------------------------------------------------
(* Properties of the cleansing of a BD directory *)

\* the output files of an old BD simulation among the file names
OldBdOutputFiles ==
    { <<"results", "1", ".xml">>, <<"results", "2", ".xml">>,
      <<"rec_lig", "_simulation", ".xml">>, <<"traj", "0_0", ".xml">> }

C10_Step ==
    bd_op' = "cleanse_bd_outputs" =>
        /\ bd_directory \cap OldBdOutputFiles = {} =>
              /\ bd_ret' = FALSE
              /\ bd_directory' = bd_directory
        /\ (bd_directory \cap OldBdOutputFiles # {} /\ ~bd_check_mode') =>
              /\ bd_ret' = TRUE
              /\ bd_directory' = bd_directory \ OldBdOutputFiles
              /\ bd_directory \subseteq OldBdOutputFiles => bd_directory' = {}

\* C10: cleanse_bd_outputs returns False and leaves the directory as it is
\* when the directory holds no results*.xml, *_simulation.xml or traj*.xml;
\* with check_mode=False on a directory that holds such files it returns True
\* and removes them all and nothing else, so that a directory that held only
\* such files is left empty.
C10_CleanseBdOutputs == [][C10_Step]_vars

\* old BD output files were in the directory, the cleanse with
\* check_mode=False has returned True and the directory is empty
C10_Witness ==
    /\ bd_op = "cleanse_bd_outputs"
    /\ ~bd_check_mode
    /\ bd_ret = TRUE
    /\ bd_directory = {}

----------------------------------------------------------------------------
(* Properties of the CV objects *)

\* add_parameters has returned a names list for the CV and
\* get_variable_values_list has just returned a values list
NamesAndValuesReturned ==
    /\ v_names.kind = "return"
    /\ v_names.text = "list"
    /\ v_op = "get_variable_values_list"
    /\ v_ret.kind = "return"

\* C11: for the spherical, Tiwary, planar and external MMVT CVs the values
\* list of get_variable_values_list is as long as the variable_names_list of
\* add_parameters and matches it position by position: the names are
\* "bitcode", then per_dof_variables in order (for Tiwary c0..c(n-1), k,
\* value), then global_variables; the first value is the bitcode
\* 2**(alias_index - 1) and every other value is the milestone's variable of
\* the name at its position.
C11_ValuesMatchNames ==
    (NamesAndValuesReturned
        /\ v_cv.class \in {"spherical", "tiwary", "planar", "external"}) =>
        /\ v_names.list = <<"bitcode">> \o v_cv.per_dof_variables
                              \o v_cv.global_variables
        /\ Len(v_ret.list) = Len(v_names.list)
        /\ v_ret.list[1].val = 2 ^ (v_milestone.alias_index - 1)
        /\ \A j \in 2..Len(v_names.list) :
              v_ret.list[j].val = v_milestone.variables[v_names.list[j]]
        /\ v_cv.class = "tiwary" =>
              v_names.list = <<"bitcode">>
                  \o [i \in 1..v_cv.n_order_parameters |-> weight_var(i - 1)]
                  \o <<"k", "value">>

\* a Tiwary CV of two order parameters has given both lists
C11_Witness ==
    /\ NamesAndValuesReturned
    /\ v_cv.class = "tiwary"
    /\ v_cv.n_order_parameters = 2
    /\ Len(v_ret.list) = 5

C12_AssertionFails ==
    (v_op = "get_variable_values_list"
        /\ v_milestone.cv_index # v_cv.index) =>
        v_ret = RaiseError("AssertionError")

C12_ChangesNothing ==
    v_op' = "get_variable_values_list" =>
        /\ v_cv' = v_cv
        /\ v_milestone' = v_milestone

\* C12: get_variable_values_list of every MMVT and Elber CV class, given a
\* milestone whose cv_index is not the CV's index, fails its assertion and
\* returns no values list; no call of get_variable_values_list changes the CV
\* or the milestone.
C12_ValuesListRequiresOwnMilestone ==
    [] C12_AssertionFails /\ [][C12_ChangesNothing]_vars

\* an Elber CV was asked for the values of a milestone of another CV
C12_Witness ==
    /\ v_op = "get_variable_values_list"
    /\ v_cv.class \in ElberClasses
    /\ v_milestone.cv_index # v_cv.index
    /\ v_ret.kind = "raise"

\* the values of the milestone: the bitcode first, k and the radius or the
\* value last
ValuesOfMilestone(parameters) ==
    /\ Len(parameters) >= 3
    /\ parameters[1].val = 2 ^ (v_milestone.alias_index - 1)
    /\ parameters[Len(parameters) - 1].val = v_milestone.variables["k"]
    /\ parameters[Len(parameters)].val =
          IF v_cv.class = "spherical" THEN v_milestone.variables["radius"]
          ELSE v_milestone.variables["value"]

\* C13: make_mmvt_boundary_definitions(cv, milestone) calls make_force_object,
\* setForceGroup(milestone.alias_index), add_parameters and
\* add_groups_and_variables in this order, the last with the list
\* get_variable_values_list(milestone) gave; the force it returns is in force
\* group milestone.alias_index and holds one set of values, that of the
\* milestone: one bond, or for the RMSD CV the global parameters bitcode, k
\* and value.
C13_BoundaryDefinition ==
    (v_op = "make_mmvt_boundary_definitions" /\ v_ret = ReturnForce) =>
        /\ v_calls = <<"make_force_object", "setForceGroup", "add_parameters",
                       "get_variable_values_list", "add_groups_and_variables">>
        /\ v_force.force_group = v_milestone.alias_index
        /\ IF v_cv.class = "rmsd"
           THEN /\ v_force.bonds = <<>>
                /\ [i \in 1..Len(v_force.global_parameters) |->
                       v_force.global_parameters[i].name]
                      = <<"bitcode", "k", "value">>
                /\ ValuesOfMilestone(
                       [i \in 1..Len(v_force.global_parameters) |->
                           v_force.global_parameters[i].value])
           ELSE /\ Len(v_force.bonds) = 1
                /\ v_force.global_parameters = <<>>
                /\ ValuesOfMilestone(v_force.bonds[1].parameters)
                /\ Len(v_force.bonds[1].parameters)
                      = Len(v_force.per_bond_parameters)

\* the boundary definition of a milestone of alias index 3 was made
C13_Witness ==
    /\ v_op = "make_mmvt_boundary_definitions"
    /\ v_ret = ReturnForce
    /\ v_milestone.alias_index = 3
    /\ Len(v_force.bonds) = 1

NamdOps == {"make_namd_colvar_string", "get_namd_evaluation_string"}

\* the text of the exception for the class of the CV
NotAvailableInNamd ==
    [tiwary |-> "MMVT Tiwary CVs are not available in NAMD",
     planar |-> "MMVT Planar CVs are not available in NAMD",
     rmsd |-> "MMVT RMSD CVs are not available in NAMD",
     external |-> "MMVT External CVs are not available in NAMD"]

C18_Raises ==
    (v_op \in NamdOps /\ v_cv.class \in DOMAIN NotAvailableInNamd) =>
        /\ v_ret.kind = "raise"
        /\ v_ret.text = NotAvailableInNamd[v_cv.class]

C18_ChangesNothing ==
    v_op' \in NamdOps => v_cv' = v_cv

\* C18: make_namd_colvar_string and get_namd_evaluation_string of the Tiwary,
\* planar, RMSD and external MMVT CVs raise, for every CV and every milestone,
\* an exception whose text says that the CVs of the class are not available in
\* NAMD; the calls change nothing of the CV.
C18_NotAvailableInNamd ==
    [] C18_Raises /\ [][C18_ChangesNothing]_vars

\* an RMSD CV was asked for its NAMD evaluation string, for a milestone of
\* its own
C18_Witness ==
    /\ v_op = "get_namd_evaluation_string"
    /\ v_cv.class = "rmsd"
    /\ v_milestone.cv_index = v_cv.index
    /\ v_ret.kind = "raise"

----------------------------------------------------------------------------
(* Properties of the factory of the simulation objects *)

\* C14: when add_forces(model, anchor) returns, the system has one more
\* boundary force and the integrator one more milestone group for every
\* milestone of the anchor, in the order of anchor.milestones, after those
\* they had before: len(anchor.milestones) forces added and as many groups
\* registered, the group of a milestone being its alias_index and the force
\* group of its force.
C14_AddForces ==
    (s_op = "add_forces" /\ s_ret = ReturnNone) =>
        LET n == Len(s_model.milestones)
            forces0 == s_before.system.forces
            groups0 == s_before.integrator.milestone_groups
            forces == s_sim.system.forces
            groups == s_sim.integrator.milestone_groups
        IN  /\ Len(forces) = Len(forces0) + n
            /\ Len(groups) = Len(groups0) + n
            /\ SubSeq(forces, 1, Len(forces0)) = forces0
            /\ SubSeq(groups, 1, Len(groups0)) = groups0
            /\ \A i \in 1..n :
                  /\ groups[Len(groups0) + i] = s_model.milestones[i].alias_index
                  /\ forces[Len(forces0) + i].force_group
                        = s_model.milestones[i].alias_index

\* add_forces has returned for an anchor of two milestones of different
\* alias_index
C14_Witness ==
    /\ s_op = "add_forces"
    /\ s_ret = ReturnNone
    /\ Len(s_model.milestones) = 2
    /\ s_model.milestones[1].alias_index # s_model.milestones[2].alias_index
    /\ Len(s_sim.system.forces) >= 2

CreateOrder ==
    <<"fill_generic_parameters", "create_openmm_system", "add_integrator",
      "add_barostat", "add_platform", "add_forces", "add_simulation">>

Called(name) == \E j \in 1..Len(s_calls) : s_calls[j] = name

\* C15: create_sim_openmm makes its calls in the order fill_generic_parameters,
\* create_openmm_system, add_integrator, add_barostat, add_platform,
\* add_forces, add_simulation, up to the first that raises; when add_forces is
\* called there is an integrator, when add_simulation is called the assertion
\* on sim_openmm.timestep holds and the call returns, and the Simulation made
\* holds every boundary force of the system and every milestone group of the
\* anchor.
C15_CreateSimOpenmmOrder ==
    s_op = "create_sim_openmm" =>
        /\ Len(s_calls) <= Len(CreateOrder)
        /\ s_calls = SubSeq(CreateOrder, 1, Len(s_calls))
        /\ Called("add_forces") => ~s_sim.integrator.is_none
        /\ Called("add_simulation") =>
              /\ s_ret = ReturnSim
              /\ ~s_sim.timestep.is_none
              /\ ~s_sim.simulation.is_none
              /\ s_sim.simulation.forces = s_sim.system.forces
              /\ Len(s_sim.simulation.forces) = Len(s_model.milestones)
              /\ Len(s_sim.simulation.milestone_groups)
                    = Len(s_model.milestones)
        /\ s_ret = ReturnSim => s_calls = CreateOrder

\* create_sim_openmm has returned the sim_openmm of an anchor of two
\* milestones
C15_Witness ==
    /\ s_op = "create_sim_openmm"
    /\ s_ret = ReturnSim
    /\ Len(s_model.milestones) = 2
    /\ Len(s_sim.simulation.forces) = 2

IsSet(name) ==
    \E j \in 1..Len(s_sim.integrator.set) : s_sim.integrator.set[j] = name

C16_State ==
    s_op = "add_integrator" =>
        IF s_model.langevin_integrator.is_none
        THEN s_ret.kind = "raise"
        ELSE /\ s_ret = ReturnNone
             /\ ~s_sim.integrator.is_none
             /\ s_sim.integrator.milestone_groups = <<>>
             /\ s_sim.timestep = Some(s_model.langevin_integrator.timestep)
             /\ IsSet("setRandomNumberSeed")
                   <=> ~s_model.langevin_integrator.random_seed.is_none
             /\ IsSet("setConstraintTolerance")
                   <=> ~s_model.langevin_integrator.rigid_tolerance.is_none
             /\ IsSet("setSaveStateFileName") <=> ~s_arg.is_none

C16_Step ==
    (s_op' = "add_integrator" /\ s_model'.langevin_integrator.is_none) =>
        /\ s_sim'.integrator = s_sim.integrator
        /\ s_sim'.timestep = s_sim.timestep

\* C16: add_integrator raises an Exception and leaves sim_openmm.integrator
\* and sim_openmm.timestep as they were when the model has no settings of a
\* Langevin integrator; otherwise it makes the integrator, sets
\* sim_openmm.timestep, and calls setRandomNumberSeed, setConstraintTolerance
\* and setSaveStateFileName exactly when random_seed, rigid_tolerance and
\* state_prefix, in this order, are not None.
C16_AddIntegrator == [] C16_State /\ [][C16_Step]_vars

\* add_integrator has raised on a sim_openmm that had an integrator
C16_Witness ==
    /\ s_op = "add_integrator"
    /\ s_model.langevin_integrator.is_none
    /\ s_ret.kind = "raise"
    /\ ~s_sim.integrator.is_none

----------------------------------------------------------------------------
(* The order of the steps of the prepare stage *)

\* the calls of a run in which no step raises, with or without a model.xml
\* in the root directory at the start
PrepareOrder(xml_exists) ==
    <<"create_model", "prepare_model_cvs_and_anchors">>
    \o (IF xml_exists THEN <<"deserialize", "modify_model">> ELSE <<>>)
    \o <<"generate_filetree", "copy_building_files", "generate_bd_files",
         "serialize">>

PrepareCalled(calls, name) == \E j \in 1..Len(calls) : calls[j] = name

C17_Step ==
    p_op' = "generate_openmmvt_model_and_filetree" =>
        LET xml_exists == p_xml # NoFile
            order == PrepareOrder(xml_exists)
        IN  \* the calls made are the first ones of the order
            /\ Len(p_calls') <= Len(order)
            /\ \A j \in 1..Len(p_calls') : p_calls'[j] = order[j]
            \* modify_model only with a model.xml, and then before
            \* generate_filetree
            /\ PrepareCalled(p_calls', "modify_model") => xml_exists
            /\ PrepareCalled(p_calls', "generate_filetree") =>
                  (PrepareCalled(p_calls', "modify_model") <=> xml_exists)
            \* a run that returns has made them all, serialize last
            /\ p_ret' = "model" =>
                  /\ p_calls' = order
                  /\ p_xml' = create_model(p_arg'.model_input)
            \* a run in which a step raises leaves model.xml as it was
            /\ p_ret' # "model" =>
                  /\ ~PrepareCalled(p_calls', "serialize")
                  /\ p_xml' = p_xml

\* C17: generate_openmmvt_model_and_filetree calls modify_model if and only
\* if model.xml exists in the root directory, before generate_filetree; then
\* generate_filetree, copy_building_files, generate_bd_files in this order and
\* model.serialize last, so that a run in which an earlier step raises has
\* not written model.xml.
C17_PrepareOrder == [][C17_Step]_vars

\* with a model.xml of another model in the root directory, modify_model and
\* generate_filetree have been called and generate_bd_files has raised
C17_Witness ==
    /\ p_op = "generate_openmmvt_model_and_filetree"
    /\ p_ret = "error"
    /\ p_calls = <<"create_model", "prepare_model_cvs_and_anchors",
                   "deserialize", "modify_model", "generate_filetree",
                   "copy_building_files", "generate_bd_files">>
    /\ p_xml # NoFile
    /\ p_xml # create_model(p_arg.model_input)

----------------------------------------------------------------------------
(* The Python check and the boundary expression of the spherical CV *)

\* C19: for a spherical CV with k # 0 and non-negative distances, for every
\* distance d between the groups and every milestone radius r,
\* check_value_within_boundary(d, {k, radius: r}) with tolerance 0 returns
\* True if and only if the boundary expression step(k*(d^2 - r^2)), as the
\* context evaluates it, is 0.
C19_CheckAgreesWithExpression ==
    (/\ f_kind = "boundary"
     /\ ctx_parameters # NoContext
     /\ ctx_parameters[2] # 0
     /\ ctx_distance >= 0
     /\ ctx_parameters[3] >= 0) =>
        (spherical_check_value_within_boundary(
             ctx_distance, milestone_variables_of(ctx_parameters), 0)
         <=> spherical_openmm_expression(
                 ctx_parameters[2], ctx_parameters[3], ctx_distance) = 0)
====
